---- MODULE Spec2Model ----
(***************************************************************************)
(* SalonCloud: the agenda (citas, bloqueos), the directory                 *)
(* (guardar_tercero), the cash desk                                        *)
(* (procesar_cobro), the debts (realizar_abono_deuda, crear_prestamo),     *)
(* the payroll (pagar_nomina_flexible), the purchases                      *)
(* (registrar_compra, abonar_proveedor) and the reports                    *)
(* (traer_kardex_prestamos, obtener_cierre_caja_dia,                       *)
(* obtener_balance_financiero) of SistemaSalonDB, src/modelo.py, and the   *)
(* /agendar endpoint of src/main.py.                                       *)
(*                                                                         *)
(* Representation.  A clock string "HH:MM" is the number of minutes since  *)
(* midnight (0 .. 1439); datetime.strptime(s, "%H:%M") yields that number, *)
(* and strftime("%H:%M") of a datetime yields it modulo one day.  A date   *)
(* string is a record [f, d]: f = "ui" for the dd-mm-yy form of the        *)
(* desktop application, f = "iso" for yyyy-mm-dd, d the calendar day.      *)
(* A table is the sequence of its rows in rowid order; a row's id is its   *)
(* position for citas, prestamos and compras (rows are never deleted);     *)
(* the rows of pagos carry their AUTOINCREMENT id, since settling a credit *)
(* deletes a row.  Amounts of money are whole pesos.  prestado and fiado   *)
(* are history variables: the code overwrites the amount of a loan and of  *)
(* a credit payment, and they keep the amount each was created with.       *)
(***************************************************************************)
EXTENDS Integers, Sequences, FiniteSets, TLC

VARIABLES
    citas,      \* table citas
    bloqueos,   \* table bloqueos
    clientes,   \* telephones of the rows of terceros with es_cliente = 1
    terceros,   \* table terceros
    productos,  \* table productos: product id -> stock
    pagos,      \* table pagos
    seq_pagos,  \* the last rowid given to a row of pagos (AUTOINCREMENT)
    ventas,     \* table ventas_productos
    gastos,     \* table gastos
    prestamos,          \* table prestamos
    abonos_prestamos,   \* table abonos_prestamos
    compras,            \* table compras
    detalle_compras,    \* table detalle_compras
    abonos_proveedores, \* table abonos_proveedores
    prestado,   \* history: the amount each loan was created with
    fiado,      \* history: the amount each credit payment was created with
    hilos,      \* the calls served at the same time, each at its step
    ult         \* the last call made and what it returned

agenda == <<citas, bloqueos, clientes, terceros>>
caja == <<productos, pagos, seq_pagos, ventas, gastos, fiado>>
cartera == <<prestamos, abonos_prestamos, prestado>>
proveedores == <<compras, detalle_compras, abonos_proveedores>>
libros == <<cartera, proveedores>>
vars == <<citas, bloqueos, clientes, terceros, productos, pagos, seq_pagos, ventas, gastos,
          prestamos, abonos_prestamos, compras, detalle_compras, abonos_proveedores,
          prestado, fiado, hilos, ult>>

----------------------------------------------------------------------------
(* Bounds of the model *)

MaxCitas == 2
MaxBloqueos == 1

FechaUI(d) == [f |-> "ui", d |-> d]
FechaISO(d) == [f |-> "iso", d |-> d]

----------------------------------------------------------------------------
(* Reference data seeded by inicializar_tablas *)

SinFila == 0 - 1

Empleados ==
    << [id |-> 1, nombre |-> "Andrea", comision |-> 50],
       [id |-> 2, nombre |-> "Lennys", comision |-> 50] >>

Servicios ==
    << [id |-> 1, nombre |-> "Cejas 3D", duracion_min |-> 60, precio |-> 50000],
       [id |-> 3, nombre |-> "Diseno", duracion_min |-> 30, precio |-> 30000] >>

MinutosDia == 24 * 60

----------------------------------------------------------------------------
(* Helpers *)

f_to_iso(fecha_ui) ==
    IF fecha_ui.f = "ui" THEN [f |-> "iso", d |-> fecha_ui.d] ELSE fecha_ui

\* fin.strftime("%H:%M"): the clock time of a datetime, its day dropped
HoraFmt(m) == m % MinutosDia

\* SELECT id FROM terceros WHERE nombre_completo=? AND es_empleado=1 .fetchone()
BuscarPid(nombre) ==
    LET m == SelectSeq(Empleados, LAMBDA e : e.nombre = nombre)
    IN  IF m = <<>> THEN SinFila ELSE m[1].id

\* SELECT id, duracion_min, precio FROM servicios WHERE nombre=? : the rows
\* found, the first of which fetchone() returns (<<>> stands for None)
get_info_servicio(n) == SelectSeq(Servicios, LAMBDA s : s.nombre = n)

\* ... FROM citas c JOIN servicios s ON c.servicio_id=s.id WHERE c.id=?
ServicioPorId(sid) == SelectSeq(Servicios, LAMBDA s : s.id = sid)

\* The texts the operations return
MsgFin == "fin"
MsgOcupado == "Ocupado"
MsgBloqueado == "BLOQUEADO"
MsgError == "error"

\* The sum of a sequence of numbers (SQL SUM over the rows selected)
RECURSIVE SumaSeq(_)
SumaSeq(s) == IF s = <<>> THEN 0 ELSE Head(s) + SumaSeq(Tail(s))

\* The sequences of at most n elements of S
SeqsHasta(S, n) == UNION {[1..k -> S] : k \in 0..n}

Msg(tipo, a, b, mot) == [tipo |-> tipo, a |-> a, b |-> b, mot |-> mot]

----------------------------------------------------------------------------
(* The directory: table terceros *)

\* NULL, and None in a dictionary of the caller
Nulo == "NULL"

FilaTercero(id, doc_id, nombre_completo, telefono, es_cli, es_prov, es_emp) ==
    [id |-> id, doc_id |-> doc_id, nombre_completo |-> nombre_completo,
     telefono |-> telefono, es_cliente |-> es_cli, es_proveedor |-> es_prov,
     es_empleado |-> es_emp]

\* The employees seeded by inicializar_tablas: no doc_id, no telephone.  A
\* full name is the sequence of its words
TercerosSemilla ==
    [i \in 1..Len(Empleados) |->
        FilaTercero(Empleados[i].id, Nulo, <<Empleados[i].nombre>>, Nulo, 0, 0, 1)]

\* guardar_paquete_citas, for a telephone buscar_cliente does not find:
\* INSERT INTO terceros (nombre_completo, nombre1, telefono, es_cliente,
\* fecha_registro); the id is the next rowid.  The bookings of the model all
\* carry the name "Cliente"
AltaCliente(ts, cls, cls2) ==
    IF cls2 = cls THEN ts
    ELSE Append(ts, FilaTercero(Len(ts) + 1, Nulo, <<"Cliente">>,
                                CHOOSE tel \in cls2 \ cls : TRUE, 1, 0, 0))

MsgGuardado == "Datos guardados correctamente"
MsgDocumento == "Error: El Documento ID ya existe en la base de datos."
\* The text every other exception is answered with, followed by str(e)
MsgErrorGuardar == "Error al guardar"

\* " ".join([p for p in partes if p]), for the parts n1 and a1
NombreCompleto(n1, a1) == SelectSeq(<<n1, a1>>, LAMBDA p : p # "")

\* doc_id TEXT UNIQUE: a row to be written carries the doc_id of another row;
\* NULL equals no NULL
ViolaUnico(ts, id, doc_id) ==
    doc_id # Nulo /\ \E j \in 1..Len(ts) : ts[j].id # id /\ ts[j].doc_id = doc_id

\* Faulty variant of guardar_tercero: doc_id is not declared UNIQUE
guardar_tercero_sin_unico(ts, datos) ==
    LET fila(id) == FilaTercero(id, datos.doc_id, NombreCompleto(datos.n1, datos.a1),
                                datos.telefono,
                                IF datos.es_cliente THEN 1 ELSE 0,
                                IF datos.es_proveedor THEN 1 ELSE 0,
                                IF datos.es_empleado THEN 1 ELSE 0)
    IN  IF datos.id # 0
        THEN [ok |-> TRUE, msg |-> MsgGuardado,
              terceros |-> [j \in 1..Len(ts) |->
                               IF ts[j].id = datos.id THEN fila(datos.id) ELSE ts[j]]]
        ELSE [ok |-> TRUE, msg |-> MsgGuardado,
              terceros |-> Append(ts, fila(Len(ts) + 1))]

\* datos carries the fields of the form, its names as texts.  An id (0 stands
\* for none) selects the UPDATE ... WHERE id=?, which changes the row of that
\* id if there is one; otherwise the INSERT.  The statement that would leave
\* two rows with one doc_id raises sqlite3.IntegrityError and writes nothing
guardar_tercero(ts, datos) ==
    LET fila(id) == FilaTercero(id, datos.doc_id, NombreCompleto(datos.n1, datos.a1),
                                datos.telefono,
                                IF datos.es_cliente THEN 1 ELSE 0,
                                IF datos.es_proveedor THEN 1 ELSE 0,
                                IF datos.es_empleado THEN 1 ELSE 0)
        existe == \E j \in 1..Len(ts) : ts[j].id = datos.id
    IN  IF datos.id # 0
        THEN IF existe /\ ViolaUnico(ts, datos.id, datos.doc_id)
             THEN [ok |-> FALSE, msg |-> MsgDocumento, terceros |-> ts]
             ELSE [ok |-> TRUE, msg |-> MsgGuardado,
                   terceros |-> [j \in 1..Len(ts) |->
                                    IF ts[j].id = datos.id THEN fila(datos.id) ELSE ts[j]]]
        ELSE IF ViolaUnico(ts, 0, datos.doc_id)
        THEN [ok |-> FALSE, msg |-> MsgDocumento, terceros |-> ts]
        ELSE [ok |-> TRUE, msg |-> MsgGuardado,
              terceros |-> Append(ts, fila(Len(ts) + 1))]

----------------------------------------------------------------------------

(* The scheduling conflict resolver *)

\* Faulty variant of Solapa: closed intervals, touching endpoints collide
SolapaCerrado(ini, fin, ci, cf) == ini <= cf /\ fin >= ci

\* (ini < strptime(cf)) and (fin > strptime(ci))
Solapa(ini, fin, ci, cf) == ini < cf /\ fin > ci

\* SELECT hora_inicio, hora_fin FROM citas
\*   WHERE fecha=? AND profesional_id=? AND estado!='Cancelado'
CitasDe(cs, fecha_iso, pid) ==
    SelectSeq(cs, LAMBDA c : c.fecha = fecha_iso /\ c.pro = pid /\ c.estado # "Cancelado")

\* SELECT hora_inicio, hora_fin, motivo FROM bloqueos
\*   WHERE fecha=? AND (profesional_id=? OR profesional_id=0)
BloqueosDe(bs, fecha_iso, pid) ==
    SelectSeq(bs, LAMBDA b : b.fecha = fecha_iso /\ (b.pid = pid \/ b.pid = 0))

\* A text that strptime(h, "%H:%M") does not parse
MalaHora == 0 - 1

\* datetime.strptime(h, "%H:%M") returns, it does not raise
HoraValida(h) == h \in 0..(MinutosDia - 1)

\* for ci, cf in rows: if (ini < strptime(cf)) and (fin > strptime(ci)): return
\* The rows are taken in order and the loop ends at the first one that
\* collides; cf is parsed first and ci only if ini < cf, and a text that does
\* not parse raises
RECURSIVE Recorrer(_, _, _, _)
Recorrer(filas, k, ini, fin) ==
    IF k > Len(filas) THEN [res |-> "libre", k |-> 0]
    ELSE IF ~HoraValida(filas[k].fin) THEN [res |-> "error", k |-> k]
    ELSE IF HoraValida(filas[k].ini)
    THEN IF Solapa(ini, fin, filas[k].ini, filas[k].fin) THEN [res |-> "choque", k |-> k]
         ELSE Recorrer(filas, k + 1, ini, fin)
    ELSE IF ini < filas[k].fin THEN [res |-> "error", k |-> k]
    ELSE Recorrer(filas, k + 1, ini, fin)

\* Faulty variant of validar_choque: the blocks are scanned before the appointments
validar_choque_bloqueos_primero(cs, bs, fecha_ui, hora_ini, duracion, pro_nombre) ==
    LET fecha_iso == f_to_iso(fecha_ui)
        ini == hora_ini
        fin == ini + duracion
        pid == BuscarPid(pro_nombre)
        filasC == CitasDe(cs, fecha_iso, pid)
        filasB == BloqueosDe(bs, fecha_iso, pid)
        rc == Recorrer(filasC, 1, ini, fin)
        rb == Recorrer(filasB, 1, ini, fin)
        error == [ocupado |-> TRUE, msg |-> Msg(MsgError, 0, 0, "")]
    IN  IF ~HoraValida(hora_ini) \/ pid = SinFila THEN error
        ELSE IF rb.res = "error" THEN error
        ELSE IF rb.res = "choque"
        THEN [ocupado |-> TRUE, msg |-> Msg(MsgBloqueado, 0, 0, filasB[rb.k].motivo)]
        ELSE IF rc.res = "error" THEN error
        ELSE IF rc.res = "choque"
        THEN [ocupado |-> TRUE,
              msg |-> Msg(MsgOcupado, filasC[rc.k].ini, filasC[rc.k].fin, "")]
        ELSE [ocupado |-> FALSE, msg |-> Msg(MsgFin, HoraFmt(fin), 0, "")]

\* The whole body runs inside try: a start time that does not parse, a name
\* that matches no employee (fetchone()[0] of None) and a stored time that
\* does not parse when the loops reach it all end in
\* except Exception as e: return True, str(e)
validar_choque(cs, bs, fecha_ui, hora_ini, duracion, pro_nombre) ==
    LET fecha_iso == f_to_iso(fecha_ui)
        ini == hora_ini
        fin == ini + duracion
        h_fin == HoraFmt(fin)
        pid == BuscarPid(pro_nombre)
        filasC == CitasDe(cs, fecha_iso, pid)
        filasB == BloqueosDe(bs, fecha_iso, pid)
        rc == Recorrer(filasC, 1, ini, fin)
        rb == Recorrer(filasB, 1, ini, fin)
        error == [ocupado |-> TRUE, msg |-> Msg(MsgError, 0, 0, "")]
    IN  IF ~HoraValida(hora_ini) \/ pid = SinFila THEN error
        ELSE IF rc.res = "error" THEN error
        ELSE IF rc.res = "choque"
        THEN [ocupado |-> TRUE,
              msg |-> Msg(MsgOcupado, filasC[rc.k].ini, filasC[rc.k].fin, "")]
        ELSE IF rb.res = "error" THEN error
        ELSE IF rb.res = "choque"
        THEN [ocupado |-> TRUE, msg |-> Msg(MsgBloqueado, 0, 0, filasB[rb.k].motivo)]
        ELSE [ocupado |-> FALSE, msg |-> Msg(MsgFin, h_fin, 0, "")]

\* buscar_cliente(tel): the first client row matching the telephone
buscar_cliente(cls, tel) == tel \in cls

\* The row INSERT INTO citas writes for one cart item, estado 'Pendiente'
FilaCita(cli_id, i) ==
    [cliente |-> cli_id, pro |-> BuscarPid(i.profesional),
     srv |-> get_info_servicio(i.servicio)[1].id, fecha |-> f_to_iso(i.fecha),
     ini |-> i.inicio, fin |-> i.fin, precio |-> i.precio, estado |-> "Pendiente",
        nomina_pagada |-> 0]

\* The loop over the cart inside one connection: an item whose professional
\* or service is not found raises (fetchone()[0] of None)
RECURSIVE InsertarCarrito(_, _, _, _)
InsertarCarrito(cs, carrito, k, cli_id) ==
    IF k > Len(carrito) THEN [ok |-> TRUE, citas |-> cs]
    ELSE IF BuscarPid(carrito[k].profesional) = SinFila
            \/ get_info_servicio(carrito[k].servicio) = <<>>
         THEN [ok |-> FALSE, citas |-> cs]
         ELSE InsertarCarrito(Append(cs, FilaCita(cli_id, carrito[k])), carrito, k + 1, cli_id)

\* The client is created in a connection of its own, committed before the
\* cart is written; the cart's connection rolls back when an item raises.
guardar_paquete_citas(cs, cls, carrito, tel) ==
    LET cls2 == IF buscar_cliente(cls, tel) THEN cls ELSE cls \cup {tel}
        r == InsertarCarrito(cs, carrito, 1, tel)
    IN  IF r.ok
        THEN [ok |-> TRUE, msg |-> "Agendado", citas |-> r.citas, clientes |-> cls2]
        ELSE [ok |-> FALSE, msg |-> MsgError, citas |-> cs, clientes |-> cls2]

\* main.py, POST /agendar, run without interruption
agendar_cita(cs, bs, cls, cita) ==
    LET info_srv == get_info_servicio(cita.servicio)
        v == validar_choque(cs, bs, cita.fecha, cita.hora, info_srv[1].duracion_min,
                            cita.profesional)
        item_cita == [servicio |-> cita.servicio, profesional |-> cita.profesional,
                      inicio |-> cita.hora, fin |-> v.msg.a, fecha |-> cita.fecha,
                      precio |-> info_srv[1].precio]
        g == guardar_paquete_citas(cs, cls, <<item_cita>>, cita.telefono)
    IN  IF info_srv = <<>>
        THEN [ok |-> FALSE, msg |-> Msg(MsgError, 0, 0, ""), citas |-> cs, clientes |-> cls]
        ELSE IF v.ocupado
        THEN [ok |-> FALSE, msg |-> v.msg, citas |-> cs, clientes |-> cls]
        ELSE [ok |-> g.ok, msg |-> Msg(g.msg, 0, 0, ""), citas |-> g.citas,
              clientes |-> g.clientes]

\* Faulty variant of reagendar_cita: the UPDATE has lost its WHERE id=?
reagendar_cita_sin_where(cs, bs, id_cita, nueva_fecha_ui, nueva_hora, nuevo_pro) ==
    LET existe == id_cita \in 1..Len(cs) /\ ServicioPorId(cs[id_cita].srv) # <<>>
        dur == ServicioPorId(cs[id_cita].srv)[1].duracion_min
        v == validar_choque(cs, bs, nueva_fecha_ui, nueva_hora, dur, nuevo_pro)
    IN  IF ~existe
        THEN [ok |-> FALSE, msg |-> Msg("Cita no existe", 0, 0, ""), citas |-> cs]
        ELSE IF v.ocupado
        THEN [ok |-> FALSE, msg |-> v.msg, citas |-> cs]
        ELSE [ok |-> TRUE, msg |-> Msg("Cita Reagendada", 0, 0, ""),
              citas |-> [i \in 1..Len(cs) |->
                            [cs[i] EXCEPT !.fecha = f_to_iso(nueva_fecha_ui),
                                          !.ini = nueva_hora,
                                          !.fin = v.msg.a,
                                          !.pro = BuscarPid(nuevo_pro),
                                          !.estado = "Reagendado"]]]

\* Faulty variant of reagendar_cita: the appointment is written before the conflict
\* is looked at
reagendar_cita_escribe_antes(cs, bs, id_cita, nueva_fecha_ui, nueva_hora, nuevo_pro) ==
    LET existe == id_cita \in 1..Len(cs) /\ ServicioPorId(cs[id_cita].srv) # <<>>
        dur == ServicioPorId(cs[id_cita].srv)[1].duracion_min
        v == validar_choque(cs, bs, nueva_fecha_ui, nueva_hora, dur, nuevo_pro)
        escrita == [cs EXCEPT ![id_cita] =
                       [@ EXCEPT !.fecha = f_to_iso(nueva_fecha_ui),
                                 !.ini = nueva_hora,
                                 !.fin = HoraFmt(nueva_hora + dur),
                                 !.estado = "Reagendado"]]
    IN  IF ~existe
        THEN [ok |-> FALSE, msg |-> Msg("Cita no existe", 0, 0, ""), citas |-> cs]
        ELSE IF v.ocupado
        THEN [ok |-> FALSE, msg |-> v.msg, citas |-> escrita]
        ELSE [ok |-> TRUE, msg |-> Msg("Cita Reagendada", 0, 0, ""),
              citas |-> [escrita EXCEPT ![id_cita].pro = BuscarPid(nuevo_pro)]]

\* Faulty variant of reagendar_cita: the appointment being moved is left out of
\* the conflict check
reagendar_cita_sin_la_propia(cs, bs, id_cita, nueva_fecha_ui, nueva_hora, nuevo_pro) ==
    LET existe == id_cita \in 1..Len(cs) /\ ServicioPorId(cs[id_cita].srv) # <<>>
        dur == ServicioPorId(cs[id_cita].srv)[1].duracion_min
        otras == [i \in 1..Len(cs) |->
                     IF i = id_cita THEN [cs[i] EXCEPT !.estado = "Cancelado"] ELSE cs[i]]
        v == validar_choque(otras, bs, nueva_fecha_ui, nueva_hora, dur, nuevo_pro)
    IN  IF ~existe
        THEN [ok |-> FALSE, msg |-> Msg("Cita no existe", 0, 0, ""), citas |-> cs]
        ELSE IF v.ocupado
        THEN [ok |-> FALSE, msg |-> v.msg, citas |-> cs]
        ELSE [ok |-> TRUE, msg |-> Msg("Cita Reagendada", 0, 0, ""),
              citas |-> [cs EXCEPT ![id_cita] =
                            [@ EXCEPT !.fecha = f_to_iso(nueva_fecha_ui),
                                      !.ini = nueva_hora,
                                      !.fin = v.msg.a,
                                      !.pro = BuscarPid(nuevo_pro),
                                      !.estado = "Reagendado"]]]

reagendar_cita(cs, bs, id_cita, nueva_fecha_ui, nueva_hora, nuevo_pro) ==
    LET existe == id_cita \in 1..Len(cs) /\ ServicioPorId(cs[id_cita].srv) # <<>>
        dur == ServicioPorId(cs[id_cita].srv)[1].duracion_min
        v == validar_choque(cs, bs, nueva_fecha_ui, nueva_hora, dur, nuevo_pro)
    IN  IF ~existe
        THEN [ok |-> FALSE, msg |-> Msg("Cita no existe", 0, 0, ""), citas |-> cs]
        ELSE IF v.ocupado
        THEN [ok |-> FALSE, msg |-> v.msg, citas |-> cs]
        ELSE [ok |-> TRUE, msg |-> Msg("Cita Reagendada", 0, 0, ""),
              citas |-> [cs EXCEPT ![id_cita] =
                            [@ EXCEPT !.fecha = f_to_iso(nueva_fecha_ui),
                                      !.ini = nueva_hora,
                                      !.fin = v.msg.a,
                                      !.pro = BuscarPid(nuevo_pro),
                                      !.estado = "Reagendado"]]]

\* Faulty variant of cancelar_cita: the state written is not the one the conflict
\* check filters out
cancelar_cita_otro_estado(cs, id_cita) ==
    [i \in 1..Len(cs) |-> IF i = id_cita THEN [cs[i] EXCEPT !.estado = "Cancelada"]
                          ELSE cs[i]]

\* UPDATE citas SET estado = 'Cancelado' WHERE id = ?
cancelar_cita(cs, id_cita) ==
    [i \in 1..Len(cs) |-> IF i = id_cita THEN [cs[i] EXCEPT !.estado = "Cancelado"]
                          ELSE cs[i]]

\* UPDATE citas SET estado='Por Cobrar' WHERE id=?
confirmar_asistencia(cs, id_c) ==
    [i \in 1..Len(cs) |-> IF i = id_c THEN [cs[i] EXCEPT !.estado = "Por Cobrar"]
                          ELSE cs[i]]

----------------------------------------------------------------------------
(* Administrative blocks *)

MotivoHorario == "Fuera de Horario"

FilaBloqueo(pid, fecha_iso, h_ini, h_fin, motivo) ==
    [pid |-> pid, fecha |-> fecha_iso, ini |-> h_ini, fin |-> h_fin, motivo |-> motivo]

\* strptime(f, "%d-%m-%y") raises on a date that is not in the dd-mm-yy form;
\* the professional "TODOS" is id 0; one row per day of f_inicio .. f_fin
crear_bloqueo(bs, pro_nombre, f_inicio, f_fin, h_ini, h_fin, motivo) ==
    LET pid == IF pro_nombre = "TODOS" THEN 0 ELSE BuscarPid(pro_nombre)
        delta == f_fin.d - f_inicio.d
        filas == [i \in 1..(delta + 1) |->
                    FilaBloqueo(pid, FechaISO(f_inicio.d + (i - 1)), h_ini, h_fin, motivo)]
    IN  IF f_inicio.f # "ui" \/ f_fin.f # "ui" \/ pid = SinFila
        THEN [ok |-> FALSE, bloqueos |-> bs]
        ELSE [ok |-> TRUE, bloqueos |-> bs \o filas]

\* Faulty variant of establecer_horario_global: the DELETE is missing
establecer_horario_global_sin_delete(bs, fecha_ui, h_apertura, h_cierre) ==
    LET fecha_iso == f_to_iso(fecha_ui)
        antes == IF h_apertura # 0
                 THEN <<FilaBloqueo(0, fecha_iso, 0, h_apertura, MotivoHorario)>>
                 ELSE <<>>
        despues == IF h_cierre # MinutosDia - 1
                   THEN <<FilaBloqueo(0, fecha_iso, h_cierre, MinutosDia - 1, MotivoHorario)>>
                   ELSE <<>>
    IN  bs \o antes \o despues

\* "00:00" is 0 and "23:59" is 1439
establecer_horario_global(bs, fecha_ui, h_apertura, h_cierre) ==
    LET fecha_iso == f_to_iso(fecha_ui)
        resto == SelectSeq(bs, LAMBDA b : ~(b.fecha = fecha_iso /\ b.pid = 0
                                             /\ b.motivo = MotivoHorario))
        antes == IF h_apertura # 0
                 THEN <<FilaBloqueo(0, fecha_iso, 0, h_apertura, MotivoHorario)>>
                 ELSE <<>>
        despues == IF h_cierre # MinutosDia - 1
                   THEN <<FilaBloqueo(0, fecha_iso, h_cierre, MinutosDia - 1, MotivoHorario)>>
                   ELSE <<>>
    IN  resto \o antes \o despues

\* (ini=="00:00" and fin=="23:59") or (ini=="00:00" and fin=="00:00")
DiaCompleto(ini, fin) == (ini = 0 /\ fin = MinutosDia - 1) \/ (ini = 0 /\ fin = 0)

\* Faulty variant of traer_profesionales_habilitados_por_fecha: the global blocks
\* are not looked at
habilitados_sin_cierre_global(bs, fecha_ui) ==
    LET fecha_iso == f_to_iso(fecha_ui)
        bloq == SelectSeq(bs, LAMBDA b : b.fecha = fecha_iso)
        libres == SelectSeq(Empleados, LAMBDA e :
                     SelectSeq(bloq, LAMBDA b : b.pid = e.id /\ DiaCompleto(b.ini, b.fin)) = <<>>)
    IN  [i \in 1..Len(libres) |-> libres[i].nombre]

traer_profesionales_habilitados_por_fecha(bs, fecha_ui) ==
    LET fecha_iso == f_to_iso(fecha_ui)
        bloq == SelectSeq(bs, LAMBDA b : b.fecha = fecha_iso)
        cierre == SelectSeq(bloq, LAMBDA b : b.pid = 0 /\ DiaCompleto(b.ini, b.fin))
        libres == SelectSeq(Empleados, LAMBDA e :
                     SelectSeq(bloq, LAMBDA b : b.pid = e.id /\ DiaCompleto(b.ini, b.fin)) = <<>>)
    IN  IF cierre # <<>> THEN <<>>
        ELSE [i \in 1..Len(libres) |-> libres[i].nombre]

----------------------------------------------------------------------------
(* Calls and answers.  ult holds the answer of the call just made; the      *)
(* caller takes it (Retornar) before the next call is made.                 *)

SinLlamada == [op |-> "ninguna"]
HilosQuietos == <<>>

\* The loans and the purchases, with no row yet
LibrosVacios ==
    /\ prestamos = <<>>
    /\ abonos_prestamos = <<>>
    /\ prestado = <<>>
    /\ compras = <<>>
    /\ detalle_compras = <<>>
    /\ abonos_proveedores = <<>>

Retornar ==
    /\ ult # SinLlamada
    /\ ult' = SinLlamada
    /\ UNCHANGED <<agenda, caja, libros, hilos>>

Agendar(cita) ==
    /\ ult = SinLlamada
    /\ Len(citas) < MaxCitas
    /\ LET r == agendar_cita(citas, bloqueos, clientes, cita)
       IN  /\ citas' = r.citas
           /\ clientes' = r.clientes
           /\ terceros' = AltaCliente(terceros, clientes, r.clientes)
           /\ ult' = [op |-> "agendar_cita", cita |-> cita, ok |-> r.ok, msg |-> r.msg]
    /\ UNCHANGED <<bloqueos, caja, libros, hilos>>

Reagendar(id_cita, fecha, hora, pro) ==
    /\ ult = SinLlamada
    /\ LET r == reagendar_cita(citas, bloqueos, id_cita, fecha, hora, pro)
       IN  /\ citas' = r.citas
           /\ ult' = [op |-> "reagendar_cita", id |-> id_cita, fecha |-> fecha,
                      hora |-> hora, pro |-> pro, ok |-> r.ok, msg |-> r.msg]
    /\ UNCHANGED <<bloqueos, clientes, terceros, caja, libros, hilos>>

Cancelar(id_cita) ==
    /\ ult = SinLlamada
    /\ citas' = cancelar_cita(citas, id_cita)
    /\ ult' = [op |-> "cancelar_cita", id |-> id_cita, ok |-> TRUE]
    /\ UNCHANGED <<bloqueos, clientes, terceros, caja, libros, hilos>>

ConfirmarAsistencia(id_c) ==
    /\ ult = SinLlamada
    /\ citas' = confirmar_asistencia(citas, id_c)
    /\ ult' = [op |-> "confirmar_asistencia", id |-> id_c]
    /\ UNCHANGED <<bloqueos, clientes, terceros, caja, libros, hilos>>

\* guardar_tercero(datos), the audit row it leaves in table auditoria aside
GuardarTercero(datos) ==
    /\ ult = SinLlamada
    /\ LET r == guardar_tercero(terceros, datos)
       IN  /\ terceros' = r.terceros
           /\ ult' = [op |-> "guardar_tercero", datos |-> datos, ok |-> r.ok,
                      msg |-> r.msg]
    /\ UNCHANGED <<citas, bloqueos, clientes, caja, libros, hilos>>

CrearBloqueo(pro, f_inicio, f_fin, franja, motivo) ==
    /\ ult = SinLlamada
    /\ LET r == crear_bloqueo(bloqueos, pro, f_inicio, f_fin, franja[1], franja[2], motivo)
       IN  /\ Len(r.bloqueos) <= MaxBloqueos
           /\ bloqueos' = r.bloqueos
           /\ ult' = [op |-> "crear_bloqueo", pro |-> pro, f_inicio |-> f_inicio,
                      f_fin |-> f_fin, franja |-> franja, ok |-> r.ok]
    /\ UNCHANGED <<citas, clientes, terceros, caja, libros, hilos>>

EstablecerHorario(fecha, horario) ==
    /\ ult = SinLlamada
    /\ LET bs == establecer_horario_global(bloqueos, fecha, horario[1], horario[2])
       IN  /\ bloqueos' = bs
           /\ ult' = [op |-> "establecer_horario_global", fecha |-> fecha,
                      horario |-> horario, ok |-> TRUE]
    /\ UNCHANGED <<citas, clientes, terceros, caja, libros, hilos>>

ValidarChoque(fecha, hora, dur, pro) ==
    /\ ult = SinLlamada
    /\ LET v == validar_choque(citas, bloqueos, fecha, hora, dur, pro)
       IN  ult' = [op |-> "validar_choque", fecha |-> fecha, hora |-> hora, dur |-> dur,
                   pro |-> pro, ocupado |-> v.ocupado, msg |-> v.msg]
    /\ UNCHANGED <<agenda, caja, libros, hilos>>

Habilitados(fecha) ==
    /\ ult = SinLlamada
    /\ ult' = [op |-> "traer_profesionales_habilitados_por_fecha", fecha |-> fecha,
               lista |-> traer_profesionales_habilitados_por_fecha(bloqueos, fecha)]
    /\ UNCHANGED <<agenda, caja, libros, hilos>>

----------------------------------------------------------------------------
(* Spec: the agenda from the empty database, one call after another *)

\* Two calendar days, one given in each form
FechasEntrada == {FechaUI(1), FechaISO(2)}
\* 09:00, 09:30
HorasEntrada == {540, 570}
NombresEntrada == {"Andrea", "Lennys", "Nadie"}
ServiciosEntrada == {"Cejas 3D", "Diseno", "Ninguno"}
Tel == "3001"
\* The directory once the client of telephone Tel has booked
TercerosConCliente == AltaCliente(TercerosSemilla, {}, {Tel})
\* 09:30-10:30
FranjasEntrada == { <<570, 630>> }
\* (apertura, cierre): 09:30-23:59 and 00:00-23:59
HorariosEntrada == { <<570, MinutosDia - 1>>, <<0, MinutosDia - 1>> }
MotivosEntrada == {"Almuerzo"}

CitasEntrada ==
    [profesional : NombresEntrada, servicio : ServiciosEntrada, fecha : FechasEntrada,
     hora : HorasEntrada, telefono : {Tel}]

InitAgenda ==
    /\ citas = <<>>
    /\ bloqueos = <<>>
    /\ clientes = {}
    /\ terceros = TercerosSemilla
    /\ productos = <<>>
    /\ pagos = <<>>
    /\ seq_pagos = 0
    /\ fiado = <<>>
    /\ LibrosVacios
    /\ ventas = <<>>
    /\ gastos = <<>>
    /\ hilos = HilosQuietos
    /\ ult = SinLlamada

NextAgenda ==
    \/ \E cita \in CitasEntrada : Agendar(cita)
    \/ \E id \in 1..(Len(citas) + 1), f \in FechasEntrada, h \in HorasEntrada,
          p \in NombresEntrada : Reagendar(id, f, h, p)
    \/ \E id \in 1..(Len(citas) + 1) : Cancelar(id)
    \/ \E p \in {"TODOS", "Andrea", "Nadie"}, f1 \in FechasEntrada, f2 \in FechasEntrada,
          fr \in FranjasEntrada, m \in MotivosEntrada : CrearBloqueo(p, f1, f2, fr, m)
    \/ \E f \in FechasEntrada, ho \in HorariosEntrada :
          /\ Len(establecer_horario_global(bloqueos, f, ho[1], ho[2])) <= MaxBloqueos
          /\ EstablecerHorario(f, ho)
    \/ Retornar

Spec == InitAgenda /\ [][NextAgenda]_vars

----------------------------------------------------------------------------
(* SpecLlamada: one call, made on any database out of a bounded set *)

\* Appointments as /agendar writes them: 09:00-10:00 of 'Cejas 3D' and
\* 09:30-10:00 of 'Diseno', of either professional, pending or cancelled
FilasCitaInit ==
    {[cliente |-> Tel, pro |-> pid, srv |-> Servicios[k].id, fecha |-> FechaISO(1),
      ini |-> 600 - Servicios[k].duracion_min, fin |-> 600,
      precio |-> Servicios[k].precio, estado |-> e,
       nomina_pagada |-> 0] :
        pid \in {1, 2}, k \in 1..Len(Servicios), e \in {"Pendiente", "Cancelado"}}

\* Blocks as crear_bloqueo writes them, global or of the first professional
FilasBloqueoInit ==
    {FilaBloqueo(pid, FechaISO(1), fr[1], fr[2], "Almuerzo") :
        pid \in {0, 1}, fr \in {<<0, MinutosDia - 1>>, <<0, 0>>, <<570, 630>>}}

\* 09:00, 09:30, 10:00
HorasLlamada == {540, 570, 600}
DuracionesLlamada == {30, 60}

InitLlamada ==
    /\ citas \in SeqsHasta(FilasCitaInit, MaxCitas)
    /\ bloqueos \in SeqsHasta(FilasBloqueoInit, MaxBloqueos)
    /\ clientes = {Tel}
    /\ terceros = TercerosConCliente
    /\ productos = <<>>
    /\ pagos = <<>>
    /\ seq_pagos = 0
    /\ fiado = <<>>
    /\ LibrosVacios
    /\ ventas = <<>>
    /\ gastos = <<>>
    /\ hilos = HilosQuietos
    /\ ult = SinLlamada

NextLlamada ==
    \/ \E f \in FechasEntrada, h \in HorasLlamada, d \in DuracionesLlamada,
          p \in NombresEntrada : ValidarChoque(f, h, d, p)
    \/ \E f \in FechasEntrada : Habilitados(f)
    \/ \E id \in 1..(Len(citas) + 1), f \in FechasEntrada, h \in HorasLlamada,
          p \in NombresEntrada : Reagendar(id, f, h, p)
    \/ \E id \in 1..(Len(citas) + 1) : Cancelar(id)

SpecLlamada == InitLlamada /\ [][NextLlamada]_vars

----------------------------------------------------------------------------
(* SpecPaquete: the agenda, with guardar_paquete_citas called on a cart *)

GuardarPaquete(carrito, tel) ==
    /\ ult = SinLlamada
    /\ Len(citas) + Len(carrito) <= MaxCitas
    /\ LET g == guardar_paquete_citas(citas, clientes, carrito, tel)
       IN  /\ citas' = g.citas
           /\ clientes' = g.clientes
           /\ terceros' = AltaCliente(terceros, clientes, g.clientes)
           /\ ult' = [op |-> "guardar_paquete_citas", carrito |-> carrito, ok |-> g.ok,
                      antes |-> Len(citas)]
    /\ UNCHANGED <<bloqueos, caja, libros, hilos>>

\* Cart items of one hour of 'Cejas 3D' at 09:00 or 09:30 on the first day
ItemsEntrada ==
    {[servicio |-> "Cejas 3D", profesional |-> p, inicio |-> h, fin |-> h + 60,
      fecha |-> FechaUI(1), precio |-> 50000] : p \in NombresEntrada, h \in HorasEntrada}

NextPaquete ==
    \/ \E carrito \in SeqsHasta(ItemsEntrada, MaxCitas) \ {<<>>} : GuardarPaquete(carrito, Tel)
    \/ \E id \in 1..(Len(citas) + 1) : Cancelar(id)
    \/ \E p \in {"TODOS", "Andrea", "Nadie"}, f1 \in FechasEntrada, f2 \in FechasEntrada,
          fr \in FranjasEntrada, m \in MotivosEntrada : CrearBloqueo(p, f1, f2, fr, m)
    \/ Retornar

SpecPaquete == InitAgenda /\ [][NextPaquete]_vars

----------------------------------------------------------------------------
(* SpecCarrera: two /agendar requests served at the same time.  Each runs   *)
(* validar_choque in one connection and, if the slot is free,               *)
(* guardar_paquete_citas in another; nothing is held between the two.       *)

Hilos == {1, 2}

CitasCarrera ==
    [profesional : {"Andrea", "Lennys"}, servicio : {"Cejas 3D", "Diseno"},
     fecha : {FechaUI(1)}, hora : HorasEntrada, telefono : {Tel}]

InitCarrera ==
    /\ citas = <<>>
    /\ bloqueos = <<>>
    /\ clientes = {}
    /\ terceros = TercerosSemilla
    /\ productos = <<>>
    /\ pagos = <<>>
    /\ seq_pagos = 0
    /\ fiado = <<>>
    /\ LibrosVacios
    /\ ventas = <<>>
    /\ gastos = <<>>
    /\ hilos \in [Hilos -> [pc : {"validar"}, cita : CitasCarrera, fin : {0}, ok : {FALSE}]]
    /\ ult = SinLlamada

\* main.py lines 92-102: the service is looked up and the slot is checked
HiloValida(t) ==
    /\ hilos[t].pc = "validar"
    /\ LET cita == hilos[t].cita
           info_srv == get_info_servicio(cita.servicio)
           v == validar_choque(citas, bloqueos, cita.fecha, cita.hora,
                               info_srv[1].duracion_min, cita.profesional)
       IN  hilos' = [hilos EXCEPT ![t] =
                        IF info_srv = <<>> \/ v.ocupado
                        THEN [@ EXCEPT !.pc = "hecho", !.ok = FALSE]
                        ELSE [@ EXCEPT !.pc = "guardar", !.fin = v.msg.a]]
    /\ UNCHANGED <<agenda, caja, libros, ult>>

\* main.py lines 105-120: the appointment is written
HiloGuarda(t) ==
    /\ hilos[t].pc = "guardar"
    /\ LET cita == hilos[t].cita
           item_cita == [servicio |-> cita.servicio, profesional |-> cita.profesional,
                         inicio |-> cita.hora, fin |-> hilos[t].fin, fecha |-> cita.fecha,
                         precio |-> get_info_servicio(cita.servicio)[1].precio]
           g == guardar_paquete_citas(citas, clientes, <<item_cita>>, cita.telefono)
       IN  /\ citas' = g.citas
           /\ clientes' = g.clientes
           /\ terceros' = AltaCliente(terceros, clientes, g.clientes)
           /\ hilos' = [hilos EXCEPT ![t] = [@ EXCEPT !.pc = "hecho", !.ok = g.ok]]
    /\ UNCHANGED <<bloqueos, caja, libros, ult>>

NextCarrera ==
    \/ \E t \in Hilos : HiloValida(t)
    \/ \E t \in Hilos : HiloGuarda(t)

SpecCarrera == InitCarrera /\ [][NextCarrera]_vars

----------------------------------------------------------------------------
(* The cash desk: procesar_cobro *)

MaxStock == 2

Hoy == FechaISO(1)

BaseDatos(cs, ps, pg, sq, vs, gs) ==
    [citas |-> cs, productos |-> ps, pagos |-> pg, seq_pagos |-> sq, ventas |-> vs,
     gastos |-> gs]

\* Faulty variant of MarcarPagadas: precio_final is not read back from the row
\* and is left at 0
MarcarPagadas_sin_precio(cs, ids) ==
    [i \in 1..Len(cs) |->
        IF \E k \in 1..Len(ids) : ids[k] = i
        THEN [cs[i] EXCEPT !.estado = "Pagado", !.precio = 0]
        ELSE cs[i]]

\* for i in ids: UPDATE citas SET estado='Pagado',
\* precio_final = (SELECT precio_final FROM citas WHERE id=?) WHERE id=?
MarcarPagadas(cs, ids) ==
    [i \in 1..Len(cs) |->
        IF \E k \in 1..Len(ids) : ids[k] = i THEN [cs[i] EXCEPT !.estado = "Pagado"]
        ELSE cs[i]]

\* Faulty variant of VenderCarrito: an item is sold whenever the shelf is not empty
RECURSIVE VenderCarrito_sin_cantidad(_, _, _, _)
VenderCarrito_sin_cantidad(tx, carrito, k, id_principal) ==
    IF k > Len(carrito) THEN [ok |-> TRUE, tx |-> tx]
    ELSE LET it == carrito[k]
         IN  IF it.prod \in DOMAIN tx.productos /\ tx.productos[it.prod] > 0
             THEN VenderCarrito_sin_cantidad(
                      [tx EXCEPT !.productos[it.prod] = @ - it.cant,
                                 !.ventas = Append(@, [cita_id |-> id_principal,
                                                       producto_id |-> it.prod,
                                                       cantidad |-> it.cant,
                                                       precio_unitario |-> it.unit,
                                                       fecha |-> Hoy])],
                      carrito, k + 1, id_principal)
             ELSE [ok |-> FALSE, tx |-> tx]

\* The loop over the cart: the stock is read, and lowered if it is enough;
\* otherwise the call raises, with what was written before still in the
\* open transaction
RECURSIVE VenderCarrito(_, _, _, _)
VenderCarrito(tx, carrito, k, id_principal) ==
    IF k > Len(carrito) THEN [ok |-> TRUE, tx |-> tx]
    ELSE LET it == carrito[k]
         IN  IF it.prod \in DOMAIN tx.productos /\ tx.productos[it.prod] >= it.cant
             THEN VenderCarrito(
                      [tx EXCEPT !.productos[it.prod] = @ - it.cant,
                                 !.ventas = Append(@, [cita_id |-> id_principal,
                                                       producto_id |-> it.prod,
                                                       cantidad |-> it.cant,
                                                       precio_unitario |-> it.unit,
                                                       fecha |-> Hoy])],
                      carrito, k + 1, id_principal)
             ELSE [ok |-> FALSE, tx |-> tx]

\* Faulty variant of FilasPago: the entries of amount 0 are inserted too
FilasPago_con_ceros(pagos_in, id_principal, con_productos, seq) ==
    [i \in 1..Len(pagos_in) |->
        [id |-> seq + i, cita_id |-> id_principal, metodo |-> pagos_in[i].m,
         monto |-> pagos_in[i].v, fecha |-> Hoy,
         descripcion_extra |-> IF con_productos THEN "Venta Servicios + Productos"
                               ELSE "Venta Servicios"]]

\* for m, v in pagos: if v > 0: INSERT INTO pagos
FilasPago(pagos_in, id_principal, con_productos, seq) ==
    LET cobrados == SelectSeq(pagos_in, LAMBDA x : x.v > 0)
    IN  [i \in 1..Len(cobrados) |->
            [id |-> seq + i, cita_id |-> id_principal, metodo |-> cobrados[i].m, monto |-> cobrados[i].v,
             fecha |-> Hoy,
             descripcion_extra |-> IF con_productos THEN "Venta Servicios + Productos"
                                   ELSE "Venta Servicios"]]

FilaDescuento(descuento_dinero) ==
    [fecha |-> Hoy, tipo |-> "GASTO", categoria |-> "Descuento Ventas",
     metodo |-> "Cruce Contable", valor |-> descuento_dinero]

\* Faulty variant of procesar_cobro: what was written before the failure is committed
procesar_cobro_sin_rollback(db, ids, pagos_in, descuento_dinero, productos_carrito) ==
    LET tx1 == [db EXCEPT !.citas = MarcarPagadas(db.citas, ids)]
        r == VenderCarrito(tx1, productos_carrito, 1, ids[1])
        nuevos == FilasPago(pagos_in, ids[1], Len(productos_carrito) > 0, db.seq_pagos)
        tx3 == [r.tx EXCEPT !.pagos = @ \o nuevos, !.seq_pagos = @ + Len(nuevos)]
        tx4 == IF descuento_dinero > 0
               THEN [tx3 EXCEPT !.gastos = Append(@, FilaDescuento(descuento_dinero))]
               ELSE tx3
    IN  IF r.ok THEN [ok |-> TRUE, db |-> tx4] ELSE [ok |-> FALSE, db |-> r.tx]

\* One transaction: commit at the end, rollback on any exception
procesar_cobro(db, ids, pagos_in, descuento_dinero, productos_carrito) ==
    LET tx1 == [db EXCEPT !.citas = MarcarPagadas(db.citas, ids)]
        r == VenderCarrito(tx1, productos_carrito, 1, ids[1])
        nuevos == FilasPago(pagos_in, ids[1], Len(productos_carrito) > 0, db.seq_pagos)
        tx3 == [r.tx EXCEPT !.pagos = @ \o nuevos, !.seq_pagos = @ + Len(nuevos)]
        tx4 == IF descuento_dinero > 0
               THEN [tx3 EXCEPT !.gastos = Append(@, FilaDescuento(descuento_dinero))]
               ELSE tx3
    IN  IF r.ok THEN [ok |-> TRUE, db |-> tx4] ELSE [ok |-> FALSE, db |-> db]

\* History: the credit payments a call adds, each with the amount it was
\* created with
Fiado(f, antes, despues) ==
    LET ids_antes == {antes[i].id : i \in 1..Len(antes)}
        nuevas == {i \in 1..Len(despues) : /\ despues[i].id \notin ids_antes
                                           /\ despues[i].metodo = "CREDITO"}
    IN  [k \in DOMAIN f \cup {despues[i].id : i \in nuevas} |->
            IF k \in DOMAIN f THEN f[k]
            ELSE LET r == despues[CHOOSE i \in nuevas : despues[i].id = k]
                 IN  [monto |-> r.monto, cita_id |-> r.cita_id]]

ProcesarCobro(ids, pagos_in, descuento_dinero, productos_carrito) ==
    /\ ult = SinLlamada
    /\ LET r == procesar_cobro(BaseDatos(citas, productos, pagos, seq_pagos, ventas, gastos),
                               ids, pagos_in, descuento_dinero, productos_carrito)
       IN  /\ citas' = r.db.citas
           /\ productos' = r.db.productos
           /\ pagos' = r.db.pagos
           /\ seq_pagos' = r.db.seq_pagos
           /\ fiado' = Fiado(fiado, pagos, r.db.pagos)
           /\ ventas' = r.db.ventas
           /\ gastos' = r.db.gastos
           /\ ult' = [op |-> "procesar_cobro", ids |-> ids, pagos |-> pagos_in,
                      descuento |-> descuento_dinero, carrito |-> productos_carrito,
                      ok |-> r.ok]
    /\ UNCHANGED <<bloqueos, clientes, terceros, libros, hilos>>

----------------------------------------------------------------------------
(* Debts: the credit payments of clients and the loans of professionals *)

\* The tables the debt operations read and write, as one value
Libro ==
    [citas |-> citas, pagos |-> pagos, seq_pagos |-> seq_pagos, gastos |-> gastos,
     prestamos |-> prestamos, abonos_prestamos |-> abonos_prestamos]

\* INSERT INTO pagos (cita_id, metodo, monto, fecha, hora, descripcion_extra)
FilaPagoDeuda(seq, cita_id, metodo_pago, monto, descripcion) ==
    [id |-> seq + 1, cita_id |-> cita_id, metodo |-> metodo_pago, monto |-> monto,
     fecha |-> Hoy, descripcion_extra |-> descripcion]

\* INSERT INTO abonos_prestamos (prestamo_id, valor, fecha, descripcion, metodo);
\* the payroll deduction leaves metodo NULL
FilaAbonoPrestamo(prestamo_id, valor, descripcion, metodo_pago) ==
    [prestamo_id |-> prestamo_id, valor |-> valor, fecha |-> Hoy,
     descripcion |-> descripcion, metodo |-> metodo_pago]

\* Faulty variant of abono_cliente: a partial payment is recorded but the credit row
\* keeps its amount
abono_cliente_sin_update(db, id_registro, monto_abono, metodo_pago) ==
    LET deuda == SelectSeq(db.pagos, LAMBDA r : r.id = id_registro)
    IN  IF deuda = <<>> THEN [ok |-> FALSE, msg |-> "No existe", db |-> db]
        ELSE LET monto_deuda == deuda[1].monto
                 cita_id == deuda[1].cita_id
             IN  IF monto_abono >= monto_deuda
                 THEN [ok |-> TRUE, msg |-> "Saldado Total",
                       db |-> [db EXCEPT
                                 !.pagos = Append(SelectSeq(@, LAMBDA r : r.id # id_registro),
                                                  FilaPagoDeuda(db.seq_pagos, cita_id,
                                                                metodo_pago, monto_deuda,
                                                                "Pago Deuda Credito")),
                                 !.seq_pagos = @ + 1]]
                 ELSE [ok |-> TRUE, msg |-> "Abono OK",
                       db |-> [db EXCEPT
                                 !.pagos = Append(@, FilaPagoDeuda(db.seq_pagos, cita_id,
                                                                   metodo_pago, monto_abono,
                                                                   "Abono Credito")),
                                 !.seq_pagos = @ + 1]]

\* Faulty variant of abono_cliente: the settling payment is recorded for the amount
\* handed over, not for the amount owed
abono_cliente_monto_abono(db, id_registro, monto_abono, metodo_pago) ==
    LET deuda == SelectSeq(db.pagos, LAMBDA r : r.id = id_registro)
    IN  IF deuda = <<>> THEN [ok |-> FALSE, msg |-> "No existe", db |-> db]
        ELSE LET monto_deuda == deuda[1].monto
                 cita_id == deuda[1].cita_id
             IN  IF monto_abono >= monto_deuda
                 THEN [ok |-> TRUE, msg |-> "Saldado Total",
                       db |-> [db EXCEPT
                                 !.pagos = Append(SelectSeq(@, LAMBDA r : r.id # id_registro),
                                                  FilaPagoDeuda(db.seq_pagos, cita_id,
                                                                metodo_pago, monto_abono,
                                                                "Pago Deuda Credito")),
                                 !.seq_pagos = @ + 1]]
                 ELSE LET nuevo_saldo == monto_deuda - monto_abono
                      IN  [ok |-> TRUE, msg |-> "Abono OK",
                           db |-> [db EXCEPT
                                     !.pagos = Append([i \in 1..Len(db.pagos) |->
                                                          IF db.pagos[i].id = id_registro
                                                          THEN [db.pagos[i] EXCEPT
                                                                  !.monto = nuevo_saldo]
                                                          ELSE db.pagos[i]],
                                                      FilaPagoDeuda(db.seq_pagos, cita_id,
                                                                    metodo_pago, monto_abono,
                                                                    "Abono Credito")),
                                     !.seq_pagos = @ + 1]]

\* tipo_deuda 'CLIENTE': the row of pagos with that id is the debt
abono_cliente(db, id_registro, monto_abono, metodo_pago) ==
    LET deuda == SelectSeq(db.pagos, LAMBDA r : r.id = id_registro)
    IN  IF deuda = <<>> THEN [ok |-> FALSE, msg |-> "No existe", db |-> db]
        ELSE LET monto_deuda == deuda[1].monto
                 cita_id == deuda[1].cita_id
             IN  IF monto_abono >= monto_deuda
                 THEN [ok |-> TRUE, msg |-> "Saldado Total",
                       db |-> [db EXCEPT
                                 !.pagos = Append(SelectSeq(@, LAMBDA r : r.id # id_registro),
                                                  FilaPagoDeuda(db.seq_pagos, cita_id,
                                                                metodo_pago, monto_deuda,
                                                                "Pago Deuda Credito")),
                                 !.seq_pagos = @ + 1]]
                 ELSE LET nuevo_saldo == monto_deuda - monto_abono
                      IN  [ok |-> TRUE, msg |-> "Abono OK",
                           db |-> [db EXCEPT
                                     !.pagos = Append([i \in 1..Len(db.pagos) |->
                                                          IF db.pagos[i].id = id_registro
                                                          THEN [db.pagos[i] EXCEPT
                                                                  !.monto = nuevo_saldo]
                                                          ELSE db.pagos[i]],
                                                      FilaPagoDeuda(db.seq_pagos, cita_id,
                                                                    metodo_pago, monto_abono,
                                                                    "Abono Credito")),
                                     !.seq_pagos = @ + 1]]

\* Faulty variant of abono_profesional: the outstanding amount is not clamped at 0
abono_profesional_sin_tope(db, id_registro, monto_abono, metodo_pago) ==
    IF id_registro \notin 1..Len(db.prestamos)
    THEN [ok |-> FALSE, msg |-> "No encontrado", db |-> db]
    ELSE LET monto_prestamo == db.prestamos[id_registro].monto
             nuevo_saldo == monto_prestamo - monto_abono
             estado == IF nuevo_saldo <= 0 THEN "Pagado" ELSE "Pendiente"
         IN  [ok |-> TRUE, msg |-> "Abono Registrado",
              db |-> [db EXCEPT
                        !.abonos_prestamos =
                            Append(@, FilaAbonoPrestamo(id_registro, monto_abono,
                                                        "Abono Voluntario", metodo_pago)),
                        !.prestamos[id_registro] =
                            [@ EXCEPT !.monto = nuevo_saldo, !.estado = estado]]]

\* tipo_deuda 'PROFESIONAL': the row of prestamos with that id is the debt
abono_profesional(db, id_registro, monto_abono, metodo_pago) ==
    IF id_registro \notin 1..Len(db.prestamos)
    THEN [ok |-> FALSE, msg |-> "No encontrado", db |-> db]
    ELSE LET monto_prestamo == db.prestamos[id_registro].monto
             nuevo_saldo == monto_prestamo - monto_abono
             estado == IF nuevo_saldo <= 0 THEN "Pagado" ELSE "Pendiente"
             monto_final == IF nuevo_saldo <= 0 THEN 0 ELSE nuevo_saldo
         IN  [ok |-> TRUE, msg |-> "Abono Registrado",
              db |-> [db EXCEPT
                        !.abonos_prestamos =
                            Append(@, FilaAbonoPrestamo(id_registro, monto_abono,
                                                        "Abono Voluntario", metodo_pago)),
                        !.prestamos[id_registro] =
                            [@ EXCEPT !.monto = monto_final, !.estado = estado]]]

\* Any other tipo_deuda enters neither branch: nothing is written and the
\* method returns None
realizar_abono_deuda(db, tipo_deuda, id_registro, monto_abono, metodo_pago) ==
    IF tipo_deuda = "CLIENTE"
    THEN abono_cliente(db, id_registro, monto_abono, metodo_pago)
    ELSE IF tipo_deuda = "PROFESIONAL"
    THEN abono_profesional(db, id_registro, monto_abono, metodo_pago)
    ELSE [ok |-> FALSE, msg |-> "None", db |-> db]

\* crear_prestamo: the loan, 'Pendiente' by default, and its expense, in one
\* transaction; an unknown professional raises before anything is written
crear_prestamo(db, profesional, monto, desc) ==
    LET pid == BuscarPid(profesional)
    IN  IF pid = SinFila THEN [ok |-> FALSE, msg |-> MsgError, db |-> db]
        ELSE [ok |-> TRUE, msg |-> "Prestamo registrado",
              db |-> [db EXCEPT
                        !.prestamos = Append(@, [profesional_id |-> pid, monto |-> monto,
                                                 fecha |-> Hoy, estado |-> "Pendiente",
                                                 descripcion |-> desc]),
                        !.gastos = Append(@, [fecha |-> Hoy, tipo |-> "GASTO",
                                              categoria |-> "Prestamos",
                                              metodo |-> "Efectivo", valor |-> monto])]]

\* for ic in ids_citas: UPDATE citas SET nomina_pagada = 1 WHERE id = ?
MarcarNomina(cs, ids_citas) ==
    [i \in 1..Len(cs) |->
        IF \E k \in 1..Len(ids_citas) : ids_citas[k] = i
        THEN [cs[i] EXCEPT !.nomina_pagada = 1]
        ELSE cs[i]]

\* Faulty variant of PrestamosPendientes: ORDER BY id DESC, the newest loan first
PrestamosPendientes_desc(ps, pid) ==
    LET asc == SelectSeq([i \in 1..Len(ps) |-> i],
                         LAMBDA i : ps[i].profesional_id = pid /\ ps[i].estado = "Pendiente")
    IN  [k \in 1..Len(asc) |-> asc[Len(asc) + 1 - k]]

\* SELECT id FROM prestamos WHERE profesional_id=? AND estado='Pendiente'
\* ORDER BY id ASC
PrestamosPendientes(ps, pid) ==
    SelectSeq([i \in 1..Len(ps) |-> i],
              LAMBDA i : ps[i].profesional_id = pid /\ ps[i].estado = "Pendiente")

\* Faulty variant of DeducirPrestamos: the installment of a loan the remainder
\* covers is written for the whole remainder
RECURSIVE DeducirPrestamos_todo_el_remanente(_, _, _, _)
DeducirPrestamos_todo_el_remanente(tx, pend, k, remanente) ==
    IF k > Len(pend) \/ remanente <= 0 THEN tx
    ELSE LET pid_p == pend[k]
             monto_orig == tx.prestamos[pid_p].monto
         IN  IF remanente >= monto_orig
             THEN DeducirPrestamos_todo_el_remanente(
                      [tx EXCEPT !.prestamos[pid_p] = [@ EXCEPT !.estado = "Pagado",
                                                                !.monto = 0],
                                 !.abonos_prestamos =
                                     Append(@, FilaAbonoPrestamo(pid_p, remanente,
                                                                 "Deduccion Nomina", "NULL"))],
                      pend, k + 1, remanente - monto_orig)
             ELSE DeducirPrestamos_todo_el_remanente(
                      [tx EXCEPT !.prestamos[pid_p] = [@ EXCEPT !.monto = monto_orig - remanente],
                                 !.abonos_prestamos =
                                     Append(@, FilaAbonoPrestamo(pid_p, remanente,
                                                                 "Deduccion Nomina", "NULL"))],
                      pend, k + 1, 0)

\* The loop over the pending loans, oldest first: a loan the remainder
\* covers is paid off, the first one it does not cover is lowered by the
\* remainder; each loan visited gets its installment row
RECURSIVE DeducirPrestamos(_, _, _, _)
DeducirPrestamos(tx, pend, k, remanente) ==
    IF k > Len(pend) \/ remanente <= 0 THEN tx
    ELSE LET pid_p == pend[k]
             monto_orig == tx.prestamos[pid_p].monto
         IN  IF remanente >= monto_orig
             THEN DeducirPrestamos(
                      [tx EXCEPT !.prestamos[pid_p] = [@ EXCEPT !.estado = "Pagado",
                                                                !.monto = 0],
                                 !.abonos_prestamos =
                                     Append(@, FilaAbonoPrestamo(pid_p, monto_orig,
                                                                 "Deduccion Nomina", "NULL"))],
                      pend, k + 1, remanente - monto_orig)
             ELSE DeducirPrestamos(
                      [tx EXCEPT !.prestamos[pid_p] = [@ EXCEPT !.monto = monto_orig - remanente],
                                 !.abonos_prestamos =
                                     Append(@, FilaAbonoPrestamo(pid_p, remanente,
                                                                 "Deduccion Nomina", "NULL"))],
                      pend, k + 1, 0)

\* An entry of lista_pagos_nomina unpacks into (met, val) when it is a pair
Desempaca(x) == Len(x) = 2

\* The entries before the first one that does not unpack, all of them when
\* every entry unpacks
RECURSIVE AntesDeFallar(_)
AntesDeFallar(lista) ==
    IF lista = <<>> \/ ~Desempaca(Head(lista)) THEN <<>>
    ELSE <<Head(lista)>> \o AntesDeFallar(Tail(lista))

\* for met, val in lista_pagos_nomina: if val > 0: INSERT INTO gastos
FilasNomina(lista_pagos_nomina) ==
    LET pagados == SelectSeq(AntesDeFallar(lista_pagos_nomina), LAMBDA x : x[2] > 0)
    IN  [i \in 1..Len(pagados) |->
            [fecha |-> Hoy, tipo |-> "GASTO", categoria |-> "Nomina",
             metodo |-> pagados[i][1], valor |-> pagados[i][2]]]

\* Faulty variant of pagar_nomina_flexible: a failure in the loop over
\* lista_pagos_nomina keeps what the statements before it wrote
pagar_nomina_flexible_sin_rollback(db, ids_citas, abono_in, lista_pagos_nomina, profesional_nombre) ==
    LET pid == BuscarPid(profesional_nombre)
        tx1 == [db EXCEPT !.citas = MarcarNomina(@, ids_citas)]
        tx2 == IF abono_in > 0
               THEN DeducirPrestamos(tx1, PrestamosPendientes(db.prestamos, pid), 1,
                                     abono_in)
               ELSE tx1
        tx3 == [tx2 EXCEPT !.gastos = @ \o FilasNomina(lista_pagos_nomina)]
    IN  IF pid = SinFila THEN [ok |-> FALSE, msg |-> MsgError, db |-> db]
        ELSE IF \E i \in 1..Len(lista_pagos_nomina) : ~Desempaca(lista_pagos_nomina[i])
        THEN [ok |-> FALSE, msg |-> MsgError, db |-> tx3]
        ELSE [ok |-> TRUE, msg |-> "Nomina Liquidada", db |-> tx3]

\* One transaction: an unknown professional raises at the first statement,
\* an entry of lista_pagos_nomina that does not unpack raises in the last
\* loop, and either way the rollback discards what the call wrote
pagar_nomina_flexible(db, ids_citas, abono_in, lista_pagos_nomina, profesional_nombre) ==
    LET pid == BuscarPid(profesional_nombre)
        tx1 == [db EXCEPT !.citas = MarcarNomina(@, ids_citas)]
        tx2 == IF abono_in > 0
               THEN DeducirPrestamos(tx1, PrestamosPendientes(db.prestamos, pid), 1,
                                     abono_in)
               ELSE tx1
        tx3 == [tx2 EXCEPT !.gastos = @ \o FilasNomina(lista_pagos_nomina)]
    IN  IF pid = SinFila THEN [ok |-> FALSE, msg |-> MsgError, db |-> db]
        ELSE IF \E i \in 1..Len(lista_pagos_nomina) : ~Desempaca(lista_pagos_nomina[i])
        THEN [ok |-> FALSE, msg |-> MsgError, db |-> db]
        ELSE [ok |-> TRUE, msg |-> "Nomina Liquidada", db |-> tx3]

\* t_pro.comision of the professional joined to an appointment
ComisionDe(pid) == SelectSeq(Empleados, LAMBDA e : e.id = pid)[1].comision

\* c.precio_final * (t.comision / 100), in whole pesos
Comision(precio_final, comision) == (precio_final * comision) \div 100

\* The rows of citas JOIN terceros (professional) that are 'Pagado' with
\* nomina_pagada = 0, as indices into citas
CitasPorLiquidar(cs) ==
    SelectSeq([i \in 1..Len(cs) |-> i],
              LAMBDA i : /\ \E e \in 1..Len(Empleados) : Empleados[e].id = cs[i].pro
                         /\ cs[i].estado = "Pagado"
                         /\ cs[i].nomina_pagada = 0)

\* Faulty variant of traer_info_liquidacion: the filter on nomina_pagada is missing
traer_info_liquidacion_sin_filtro(db, cls, profesional, f1_str, f2_str) ==
    LET d1_iso == f_to_iso(f1_str)
        d2_iso == f_to_iso(f2_str)
        filas == SelectSeq([i \in 1..Len(db.citas) |-> i],
                           LAMBDA i : /\ BuscarPid(profesional) = db.citas[i].pro
                                      /\ db.citas[i].cliente \in cls
                                      /\ ServicioPorId(db.citas[i].srv) # <<>>
                                      /\ db.citas[i].estado = "Pagado"
                                      /\ db.citas[i].fecha.d >= d1_iso.d
                                      /\ db.citas[i].fecha.d <= d2_iso.d)
        pend == PrestamosPendientes(db.prestamos, BuscarPid(profesional))
    IN  [ventas |-> [k \in 1..Len(filas) |->
                        [id |-> filas[k], precio_final |-> db.citas[filas[k]].precio,
                         comision |-> Comision(db.citas[filas[k]].precio,
                                               ComisionDe(db.citas[filas[k]].pro))]],
         prestamos |-> [k \in 1..Len(pend) |->
                           [id |-> pend[k], monto |-> db.prestamos[pend[k]].monto]]]

\* traer_info_liquidacion: the paid appointments of the professional in the
\* date range that no payroll has settled, each with its commission, and the
\* professional's pending loans
traer_info_liquidacion(db, cls, profesional, f1_str, f2_str) ==
    LET d1_iso == f_to_iso(f1_str)
        d2_iso == f_to_iso(f2_str)
        filas == SelectSeq([i \in 1..Len(db.citas) |-> i],
                           LAMBDA i : /\ BuscarPid(profesional) = db.citas[i].pro
                                      /\ db.citas[i].cliente \in cls
                                      /\ ServicioPorId(db.citas[i].srv) # <<>>
                                      /\ db.citas[i].estado = "Pagado"
                                      /\ db.citas[i].nomina_pagada = 0
                                      /\ db.citas[i].fecha.d >= d1_iso.d
                                      /\ db.citas[i].fecha.d <= d2_iso.d)
        pend == PrestamosPendientes(db.prestamos, BuscarPid(profesional))
    IN  [ventas |-> [k \in 1..Len(filas) |->
                        [id |-> filas[k], precio_final |-> db.citas[filas[k]].precio,
                         comision |-> Comision(db.citas[filas[k]].precio,
                                               ComisionDe(db.citas[filas[k]].pro))]],
         prestamos |-> [k \in 1..Len(pend) |->
                           [id |-> pend[k], monto |-> db.prestamos[pend[k]].monto]]]

\* traer_cuentas_por_pagar_comisiones: per professional with an unsettled
\* paid appointment, the sum of the commissions
traer_cuentas_por_pagar_comisiones(db) ==
    LET filas == CitasPorLiquidar(db.citas)
        nombres == {Empleados[e].nombre :
                      e \in {x \in 1..Len(Empleados) :
                               \E k \in 1..Len(filas) : db.citas[filas[k]].pro = Empleados[x].id}}
    IN  [n \in nombres |->
            LET suyas == SelectSeq(filas, LAMBDA i : db.citas[i].pro = BuscarPid(n))
            IN  SumaSeq([k \in 1..Len(suyas) |->
                            Comision(db.citas[suyas[k]].precio,
                                     ComisionDe(db.citas[suyas[k]].pro))])]

\* datetime.strptime(fecha_iso, "%Y-%m-%d").strftime("%d-%m-%y"); a string in
\* another form is returned as it came
f_to_ui(fecha_iso) ==
    IF fecha_iso.f = "iso" THEN [f |-> "ui", d |-> fecha_iso.d] ELSE fecha_iso

\* f"${m:,.0f}": the peso sign and the amount in whole pesos
Pesos(n) == <<"$", n>>

\* Faulty variant of OrdenarPorFecha: a movement goes before the ones of its
\* own day, so movements of one day come out in reverse input order
OrdenarPorFecha_inestable(movs) ==
    LET RECURSIVE Ordenar(_)
        Ordenar(k) ==
            IF k = 0 THEN <<>>
            ELSE LET s == Ordenar(k - 1)
                     n == Cardinality({i \in 1..Len(s) : s[i].dt < movs[k].dt})
                 IN  SubSeq(s, 1, n) \o <<movs[k]>> \o SubSeq(s, n + 1, Len(s))
    IN  Ordenar(Len(movs))

\* movs.sort(key=lambda x: x['dt']): list.sort is stable, a movement goes
\* after the ones dated the same day that precede it in the list
OrdenarPorFecha(movs) ==
    LET RECURSIVE Ordenar(_)
        Ordenar(k) ==
            IF k = 0 THEN <<>>
            ELSE LET s == Ordenar(k - 1)
                     n == Cardinality({i \in 1..Len(s) : s[i].dt <= movs[k].dt})
                 IN  SubSeq(s, 1, n) \o <<movs[k]>> \o SubSeq(s, n + 1, Len(s))
    IN  Ordenar(Len(movs))

\* The movements of a professional before sorting: the rows of prestamos,
\* then the rows of abonos_prestamos joined to the professional's loans,
\* each table in rowid order; 'm' of a loan is the monto column as it stands
MovimientosKardex(db, pid) ==
    LET ps == SelectSeq([i \in 1..Len(db.prestamos) |-> i],
                        LAMBDA i : db.prestamos[i].profesional_id = pid)
        as == SelectSeq(db.abonos_prestamos,
                        LAMBDA a : /\ a.prestamo_id \in 1..Len(db.prestamos)
                                   /\ db.prestamos[a.prestamo_id].profesional_id = pid)
    IN  [k \in 1..Len(ps) |->
            [f |-> db.prestamos[ps[k]].fecha, d |-> db.prestamos[ps[k]].descripcion,
             m |-> db.prestamos[ps[k]].monto, t |-> "PRESTAMO (+)",
             dt |-> db.prestamos[ps[k]].fecha.d]]
        \o
        [k \in 1..Len(as) |->
            [f |-> as[k].fecha, d |-> as[k].descripcion, m |-> as[k].valor,
             t |-> "ABONO (-)", dt |-> as[k].fecha.d]]

\* saldo after the first k movements: += m for a loan, -= m for an installment
RECURSIVE SaldoKardex(_, _)
SaldoKardex(movs, k) ==
    IF k = 0 THEN 0
    ELSE SaldoKardex(movs, k - 1)
         + (IF movs[k].t = "PRESTAMO (+)" THEN movs[k].m ELSE 0 - movs[k].m)

\* traer_kardex_prestamos: [] for a name that is no employee's, else the
\* sorted movements, each with the running balance
traer_kardex_prestamos(db, profesional) ==
    LET pid == BuscarPid(profesional)
        movs == OrdenarPorFecha(MovimientosKardex(db, pid))
    IN  IF pid = SinFila THEN <<>>
        ELSE [k \in 1..Len(movs) |->
                 [f |-> f_to_ui(movs[k].f), t |-> movs[k].t, d |-> movs[k].d,
                  m |-> Pesos(movs[k].m), saldo |-> Pesos(SaldoKardex(movs, k))]]

CrearPrestamo(profesional, monto, desc) ==
    /\ LET r == crear_prestamo(Libro, profesional, monto, desc)
       IN  /\ prestamos' = r.db.prestamos
           /\ gastos' = r.db.gastos
           /\ prestado' = IF r.ok THEN Append(prestado, monto) ELSE prestado
           /\ ult' = [op |-> "crear_prestamo", pro |-> profesional, monto |-> monto,
                      ok |-> r.ok]
    /\ UNCHANGED <<agenda, productos, pagos, seq_pagos, ventas, fiado, abonos_prestamos,
                   proveedores, hilos>>

PagarNomina(ids_citas, abono_prestamos_in, lista_pagos_nomina, profesional_nombre) ==
    /\ LET r == pagar_nomina_flexible(Libro, ids_citas, abono_prestamos_in,
                                      lista_pagos_nomina, profesional_nombre)
       IN  /\ citas' = r.db.citas
           /\ prestamos' = r.db.prestamos
           /\ abonos_prestamos' = r.db.abonos_prestamos
           /\ gastos' = r.db.gastos
           /\ ult' = [op |-> "pagar_nomina_flexible", ids |-> ids_citas,
                      abono |-> abono_prestamos_in, lista |-> lista_pagos_nomina,
                      pro |-> profesional_nombre, ok |-> r.ok]
    /\ UNCHANGED <<bloqueos, clientes, terceros, productos, pagos, seq_pagos, ventas, fiado, prestado,
                   proveedores, hilos>>

RealizarAbono(tipo_deuda, id_registro, monto_abono, metodo_pago) ==
    /\ LET r == realizar_abono_deuda(Libro, tipo_deuda, id_registro, monto_abono, metodo_pago)
       IN  /\ pagos' = r.db.pagos
           /\ seq_pagos' = r.db.seq_pagos
           /\ prestamos' = r.db.prestamos
           /\ abonos_prestamos' = r.db.abonos_prestamos
           /\ ult' = [op |-> "realizar_abono_deuda", tipo |-> tipo_deuda,
                      id |-> id_registro, monto |-> monto_abono, metodo |-> metodo_pago,
                      ok |-> r.ok, msg |-> r.msg]
    /\ UNCHANGED <<agenda, productos, ventas, gastos, fiado, prestado, proveedores, hilos>>

----------------------------------------------------------------------------
(* Reports: the cash closure of a day and the financial balance of a range *)

\* d[k] = d.get(k, 0) + v over a list of (k, v): the sum of v per key
Agrupar(pares) ==
    [k \in {pares[i][1] : i \in 1..Len(pares)} |->
        SumaSeq([i \in 1..Len(pares) |-> IF pares[i][1] = k THEN pares[i][2] ELSE 0])]

\* obtener_cierre_caja_dia: the payments of the day joined to their
\* appointment and its client, summed per method (every method, 'CREDITO'
\* too) with the credit ones also listed; the installments of the day per
\* method, 'Efectivo' when the row has none; the expenses of the day, loans
\* apart, discounts skipped.  The description of an expense is not kept in
\* the rows of gastos, detalle_gastos_lista carries the category in its place
obtener_cierre_caja_dia(db, cls, fecha_ui) ==
    LET fecha_iso == f_to_iso(fecha_ui)
        pagos_dia == SelectSeq(db.pagos,
                               LAMBDA p : /\ p.fecha = fecha_iso
                                          /\ p.cita_id \in 1..Len(db.citas)
                                          /\ db.citas[p.cita_id].cliente \in cls)
        creditos == SelectSeq(pagos_dia, LAMBDA p : p.metodo = "CREDITO")
        abonos == SelectSeq(db.abonos_prestamos, LAMBDA a : a.fecha = fecha_iso)
        gastos_dia == SelectSeq(db.gastos, LAMBDA g : g.fecha = fecha_iso)
        de_prestamos == SelectSeq(gastos_dia, LAMBDA g : g.categoria = "Prestamos")
        otros == SelectSeq(gastos_dia, LAMBDA g : g.categoria \notin {"Prestamos", "Descuento Ventas"})
    IN  [ventas |-> Agrupar([i \in 1..Len(pagos_dia) |-> <<pagos_dia[i].metodo, pagos_dia[i].monto>>]),
         detalle_creditos_lista |->
             [i \in 1..Len(creditos) |-> <<db.citas[creditos[i].cita_id].cliente, creditos[i].monto>>],
         abonos_prestamos |->
             Agrupar([i \in 1..Len(abonos) |->
                         <<IF abonos[i].metodo = "NULL" THEN "Efectivo" ELSE abonos[i].metodo,
                           abonos[i].valor>>]),
         prestamos |-> Agrupar([i \in 1..Len(de_prestamos) |-> <<de_prestamos[i].metodo, de_prestamos[i].valor>>]),
         gastos |-> Agrupar([i \in 1..Len(otros) |-> <<otros[i].metodo, otros[i].valor>>]),
         detalle_gastos_lista |->
             [i \in 1..Len(otros) |-> <<otros[i].categoria, otros[i].metodo, otros[i].valor>>]]

\* Faulty variant of obtener_balance_financiero: the discounts are not added
\* back to the gross sales
obtener_balance_financiero_sin_descuentos(db, f1_ui, f2_ui) ==
    LET d1_iso == f_to_iso(f1_ui)
        d2_iso == f_to_iso(f2_ui)
        ps == SelectSeq(db.pagos, LAMBDA p : p.fecha.d >= d1_iso.d /\ p.fecha.d <= d2_iso.d)
        gs == SelectSeq(db.gastos, LAMBDA g : g.fecha.d >= d1_iso.d /\ g.fecha.d <= d2_iso.d)
        cobros == SelectSeq(ps, LAMBDA p : p.metodo # "CREDITO")
        salidas == SelectSeq(gs, LAMBDA g : g.categoria # "Descuento Ventas")
        entra == Agrupar([i \in 1..Len(cobros) |-> <<cobros[i].metodo, cobros[i].monto>>])
        sale == Agrupar([i \in 1..Len(salidas) |-> <<salidas[i].metodo, salidas[i].valor>>])
        pagos_total == SumaSeq([i \in 1..Len(ps) |-> ps[i].monto])
        gastos_total == SumaSeq([i \in 1..Len(gs) |-> gs[i].valor])
        venta_bruta == pagos_total
    IN  [venta_bruta |-> venta_bruta, gastos_total |-> gastos_total,
         utilidad |-> venta_bruta - gastos_total,
         flujo |-> [m \in DOMAIN entra \cup DOMAIN sale |->
                       [in |-> IF m \in DOMAIN entra THEN entra[m] ELSE 0,
                        out |-> IF m \in DOMAIN sale THEN sale[m] ELSE 0]]]

\* obtener_balance_financiero: over the payments and the expenses dated in
\* the range, the gross sales (payments of every method plus the discount
\* expenses), the expenses, their difference, and per method the payments
\* that are not credit ('in') and the expenses that are not discounts ('out')
obtener_balance_financiero(db, f1_ui, f2_ui) ==
    LET d1_iso == f_to_iso(f1_ui)
        d2_iso == f_to_iso(f2_ui)
        ps == SelectSeq(db.pagos, LAMBDA p : p.fecha.d >= d1_iso.d /\ p.fecha.d <= d2_iso.d)
        gs == SelectSeq(db.gastos, LAMBDA g : g.fecha.d >= d1_iso.d /\ g.fecha.d <= d2_iso.d)
        cobros == SelectSeq(ps, LAMBDA p : p.metodo # "CREDITO")
        salidas == SelectSeq(gs, LAMBDA g : g.categoria # "Descuento Ventas")
        descuentos == SelectSeq(gs, LAMBDA g : g.categoria = "Descuento Ventas")
        entra == Agrupar([i \in 1..Len(cobros) |-> <<cobros[i].metodo, cobros[i].monto>>])
        sale == Agrupar([i \in 1..Len(salidas) |-> <<salidas[i].metodo, salidas[i].valor>>])
        pagos_total == SumaSeq([i \in 1..Len(ps) |-> ps[i].monto])
        gastos_total == SumaSeq([i \in 1..Len(gs) |-> gs[i].valor])
        venta_bruta == pagos_total + SumaSeq([i \in 1..Len(descuentos) |-> descuentos[i].valor])
    IN  [venta_bruta |-> venta_bruta, gastos_total |-> gastos_total,
         utilidad |-> venta_bruta - gastos_total,
         flujo |-> [m \in DOMAIN entra \cup DOMAIN sale |->
                       [in |-> IF m \in DOMAIN entra THEN entra[m] ELSE 0,
                        out |-> IF m \in DOMAIN sale THEN sale[m] ELSE 0]]]

\* Faulty variant of CierreCaja: the closure also records itself as an expense row
CierreCaja_con_registro(fecha_ui) ==
    /\ ult' = [op |-> "obtener_cierre_caja_dia", fecha |-> fecha_ui,
               res |-> obtener_cierre_caja_dia(Libro, clientes, fecha_ui)]
    /\ gastos' = Append(gastos, [fecha |-> Hoy, tipo |-> "GASTO", categoria |-> "Cierre",
                                 metodo |-> "Efectivo", valor |-> 0])
    /\ UNCHANGED <<agenda, productos, pagos, seq_pagos, ventas, fiado, libros, hilos>>

\* obtener_cierre_caja_dia(fecha_ui): a read, its result kept in ult
CierreCaja(fecha_ui) ==
    /\ ult' = [op |-> "obtener_cierre_caja_dia", fecha |-> fecha_ui,
               res |-> obtener_cierre_caja_dia(Libro, clientes, fecha_ui)]
    /\ UNCHANGED <<agenda, caja, libros, hilos>>

\* obtener_balance_financiero(f1_ui, f2_ui): a read, its result kept in ult
BalanceFinanciero(f1_ui, f2_ui) ==
    /\ ult' = [op |-> "obtener_balance_financiero", f1 |-> f1_ui, f2 |-> f2_ui,
               res |-> obtener_balance_financiero(Libro, f1_ui, f2_ui)]
    /\ UNCHANGED <<agenda, caja, libros, hilos>>

----------------------------------------------------------------------------
(* SpecCobro: one sale, on any stock of two products *)

ProductosInit == {1, 2}
\* Product 9 is in no row of productos
ItemsVenta == [prod : {1, 2, 9}, cant : {1, 2}, unit : {10000}]
MaxItems == 2
PagosEntrada ==
    { <<[m |-> "Efectivo", v |-> 50000]>>,
      <<[m |-> "Efectivo", v |-> 30000], [m |-> "CREDITO", v |-> 20000]>>,
      <<[m |-> "Efectivo", v |-> 50000], [m |-> "Nequi", v |-> 0]>> }
IdsEntrada == { <<1>>, <<1, 2>> }
DescuentosEntrada == {0, 5000}

\* Two appointments booked through /agendar, not yet paid
CitasCobroInit ==
    << [cliente |-> Tel, pro |-> 1, srv |-> 1, fecha |-> FechaISO(1), ini |-> 540,
        fin |-> 600, precio |-> 50000, estado |-> "Pendiente",
        nomina_pagada |-> 0],
       [cliente |-> Tel, pro |-> 2, srv |-> 3, fecha |-> FechaISO(1), ini |-> 570,
        fin |-> 600, precio |-> 30000, estado |-> "Pendiente",
        nomina_pagada |-> 0] >>

InitCobro ==
    /\ citas = CitasCobroInit
    /\ bloqueos = <<>>
    /\ clientes = {Tel}
    /\ terceros = TercerosConCliente
    /\ productos \in [ProductosInit -> 0..MaxStock]
    /\ pagos = <<>>
    /\ seq_pagos = 0
    /\ fiado = <<>>
    /\ LibrosVacios
    /\ ventas = <<>>
    /\ gastos = <<>>
    /\ hilos = HilosQuietos
    /\ ult = SinLlamada

NextCobro ==
    \E ids \in IdsEntrada, pg \in PagosEntrada, d \in DescuentosEntrada,
       carrito \in SeqsHasta(ItemsVenta, MaxItems) :
        ProcesarCobro(ids, pg, d, carrito)

SpecCobro == InitCobro /\ [][NextCobro]_vars

----------------------------------------------------------------------------
(* SpecCredito: two sales on credit and a loan, then any payments on them *)

MaxCredito == 2
MaxPrestamo == 2
MaxAbonos == 1

\* The payment methods a debt is settled with
MetodosAbono == {"Efectivo", "Nequi"}

\* The ids the debt screen offers (buscar_deudas_pendientes): the credit rows
\* of pagos, the loans, and one id that is in neither table
IdsDeuda(tipo_deuda) ==
    IF tipo_deuda = "CLIENTE"
    THEN {pagos[i].id : i \in {j \in 1..Len(pagos) : pagos[j].metodo = "CREDITO"}}
         \cup {seq_pagos + 1}
    ELSE 1..(Len(prestamos) + 1)

\* The database after the sale of appointment 1 for e in cash and a1 on
\* credit, the sale of appointment 2 for a2 on credit, and a loan of p to
\* Andrea
VentasACredito(e, a1, a2, p) ==
    LET db0 == BaseDatos(CitasCobroInit, [x \in ProductosInit |-> 0], <<>>, 0, <<>>, <<>>)
        v1 == procesar_cobro(db0, <<1>>, <<[m |-> "Efectivo", v |-> e],
                                          [m |-> "CREDITO", v |-> a1]>>, 0, <<>>).db
        v2 == procesar_cobro(v1, <<2>>, <<[m |-> "CREDITO", v |-> a2]>>, 0, <<>>).db
    IN  crear_prestamo([citas |-> v2.citas, pagos |-> v2.pagos, seq_pagos |-> v2.seq_pagos,
                        gastos |-> v2.gastos, prestamos |-> <<>>,
                        abonos_prestamos |-> <<>>],
                       "Andrea", p, "Adelanto").db

InitCredito ==
    \E e \in {0, 1}, a1 \in 1..MaxCredito, a2 \in {1}, p \in 1..MaxPrestamo :
        LET db == VentasACredito(e, a1, a2, p)
        IN  /\ citas = db.citas
            /\ bloqueos = <<>>
            /\ clientes = {Tel}
            /\ terceros = TercerosConCliente
            /\ productos = [x \in ProductosInit |-> 0]
            /\ pagos = db.pagos
            /\ seq_pagos = db.seq_pagos
            /\ ventas = <<>>
            /\ gastos = db.gastos
            /\ fiado = Fiado(<<>>, <<>>, db.pagos)
            /\ prestamos = db.prestamos
            /\ abonos_prestamos = <<>>
            /\ prestado = <<p>>
            /\ compras = <<>>
            /\ detalle_compras = <<>>
            /\ abonos_proveedores = <<>>
            /\ hilos = HilosQuietos
            /\ ult = SinLlamada

NextCredito ==
    \E tipo \in {"CLIENTE", "PROFESIONAL"}, monto \in 1..(MaxCredito + 1),
       met \in MetodosAbono :
        \E id \in IdsDeuda(tipo) :
            /\ tipo = "PROFESIONAL" => Len(abonos_prestamos) < MaxAbonos
            /\ RealizarAbono(tipo, id, monto, met)

SpecCredito == InitCredito /\ [][NextCredito]_vars

----------------------------------------------------------------------------
(* SpecPrestamos: loans, voluntary payments on them and payroll deductions *)

MaxPrestamos == 2
MaxCuotas == 2
MaxGastos == 3

ListasNomina == { << <<"Efectivo", 0>>, <<"Nequi", 25000>> >> }

InitPrestamos ==
    /\ citas = CitasCobroInit
    /\ bloqueos = <<>>
    /\ clientes = {Tel}
    /\ terceros = TercerosConCliente
    /\ productos = [x \in ProductosInit |-> 0]
    /\ pagos = <<>>
    /\ seq_pagos = 0
    /\ fiado = <<>>
    /\ LibrosVacios
    /\ ventas = <<>>
    /\ gastos = <<>>
    /\ hilos = HilosQuietos
    /\ ult = SinLlamada

NextPrestamos ==
    \/ \E p \in {"Andrea", "Lennys", "Nadie"}, monto \in 0..MaxPrestamo :
          /\ Len(prestamos) < MaxPrestamos
          /\ CrearPrestamo(p, monto, "Adelanto")
    \/ \E id \in 1..(Len(prestamos) + 1), monto \in 1..(MaxPrestamo + 1),
          met \in MetodosAbono :
          /\ Len(abonos_prestamos) < MaxCuotas
          /\ RealizarAbono("PROFESIONAL", id, monto, met)
    \/ \E ids \in {<<1>>}, abono \in 0..(2 * MaxPrestamo), lista \in ListasNomina,
          p \in {"Andrea", "Lennys", "Nadie"} :
          /\ Len(abonos_prestamos) < MaxCuotas
          /\ Len(gastos) < MaxGastos
          /\ PagarNomina(ids, abono, lista, p)

SpecPrestamos == InitPrestamos /\ [][NextPrestamos]_vars

----------------------------------------------------------------------------
(* Purchases: registrar_compra and abonar_proveedor *)

\* The tables the purchase operations read and write, as one value
Almacen ==
    [compras |-> compras, detalle_compras |-> detalle_compras,
     abonos_proveedores |-> abonos_proveedores, productos |-> productos,
     gastos |-> gastos]

\* The loop over the items: the detail row, and the stock of the product
\* raised when the product exists
RECURSIVE RecibirItems(_, _, _, _)
RecibirItems(tx, items, k, id_compra) ==
    IF k > Len(items) THEN tx
    ELSE LET it == items[k]
             tx1 == [tx EXCEPT !.detalle_compras =
                                  Append(@, [compra_id |-> id_compra,
                                             producto_id |-> it.prod,
                                             cantidad |-> it.cant,
                                             costo_unitario |-> it.costo])]
             tx2 == IF it.prod \in DOMAIN tx.productos
                    THEN [tx1 EXCEPT !.productos[it.prod] = @ + it.cant]
                    ELSE tx1
         IN  RecibirItems(tx2, items, k + 1, id_compra)

\* Faulty variant of registrar_compra: the expense is written for a credit purchase too
registrar_compra_gasto_siempre(db, id_prov, items, metodo_pago, total) ==
    LET estado == IF metodo_pago = "CREDITO" THEN "Pendiente" ELSE "Pagado"
        id_compra == Len(db.compras) + 1
        tx1 == [db EXCEPT !.compras = Append(@, [proveedor_id |-> id_prov, fecha |-> Hoy,
                                                 total |-> total,
                                                 metodo_pago |-> metodo_pago,
                                                 estado |-> estado])]
        tx2 == RecibirItems(tx1, items, 1, id_compra)
        tx3 == [tx2 EXCEPT !.gastos = Append(@, [fecha |-> Hoy, tipo |-> "COSTO",
                                                 categoria |-> "Compra Mercancia",
                                                 metodo |-> metodo_pago,
                                                 valor |-> total])]
    IN  [ok |-> TRUE, msg |-> "Compra registrada y Stock actualizado", db |-> tx3]

\* One transaction: the purchase, its detail rows and stock, and the expense
\* unless the purchase is on credit
registrar_compra(db, id_prov, items, metodo_pago, total) ==
    LET estado == IF metodo_pago = "CREDITO" THEN "Pendiente" ELSE "Pagado"
        id_compra == Len(db.compras) + 1
        tx1 == [db EXCEPT !.compras = Append(@, [proveedor_id |-> id_prov, fecha |-> Hoy,
                                                 total |-> total,
                                                 metodo_pago |-> metodo_pago,
                                                 estado |-> estado])]
        tx2 == RecibirItems(tx1, items, 1, id_compra)
        tx3 == IF metodo_pago # "CREDITO"
               THEN [tx2 EXCEPT !.gastos = Append(@, [fecha |-> Hoy, tipo |-> "COSTO",
                                                      categoria |-> "Compra Mercancia",
                                                      metodo |-> metodo_pago,
                                                      valor |-> total])]
               ELSE tx2
    IN  [ok |-> TRUE, msg |-> "Compra registrada y Stock actualizado", db |-> tx3]

\* SELECT SUM(monto) FROM abonos_proveedores WHERE compra_id=?
PagadoProveedor(ab, id_compra) ==
    LET f == SelectSeq(ab, LAMBDA r : r.compra_id = id_compra)
    IN  SumaSeq([i \in 1..Len(f) |-> f[i].monto])

\* The installment and its expense, written before the purchase is read
AbonoEscrito(db, id_compra, monto, metodo) ==
    [db EXCEPT !.abonos_proveedores = Append(@, [compra_id |-> id_compra, monto |-> monto,
                                                 fecha |-> Hoy, metodo |-> metodo]),
               !.gastos = Append(@, [fecha |-> Hoy, tipo |-> "GASTO",
                                     categoria |-> "Pago Proveedor",
                                     metodo |-> metodo, valor |-> monto])]

\* Faulty variant of abonar_proveedor: the purchase is paid only once the installments
\* exceed the total
abonar_proveedor_mayor_estricto(db, id_compra, monto, metodo) ==
    LET tx1 == AbonoEscrito(db, id_compra, monto, metodo)
    IN  IF id_compra \notin 1..Len(db.compras)
        THEN [ok |-> FALSE, msg |-> MsgError, db |-> db]
        ELSE LET total_orig == db.compras[id_compra].total
                 pagado == PagadoProveedor(tx1.abonos_proveedores, id_compra)
             IN  [ok |-> TRUE, msg |-> "Abono registrado correctamente",
                  db |-> IF pagado > total_orig
                         THEN [tx1 EXCEPT !.compras[id_compra].estado = "Pagado"]
                         ELSE tx1]

\* Faulty variant of abonar_proveedor: no rollback when the purchase does not exist
abonar_proveedor_sin_rollback(db, id_compra, monto, metodo) ==
    LET tx1 == AbonoEscrito(db, id_compra, monto, metodo)
    IN  IF id_compra \notin 1..Len(db.compras)
        THEN [ok |-> FALSE, msg |-> MsgError, db |-> tx1]
        ELSE LET total_orig == db.compras[id_compra].total
                 pagado == PagadoProveedor(tx1.abonos_proveedores, id_compra)
             IN  [ok |-> TRUE, msg |-> "Abono registrado correctamente",
                  db |-> IF pagado >= total_orig
                         THEN [tx1 EXCEPT !.compras[id_compra].estado = "Pagado"]
                         ELSE tx1]

\* One transaction: reading the total of a purchase that does not exist
\* raises (row is None), and the rollback undoes the two inserts
abonar_proveedor(db, id_compra, monto, metodo) ==
    LET tx1 == AbonoEscrito(db, id_compra, monto, metodo)
    IN  IF id_compra \notin 1..Len(db.compras)
        THEN [ok |-> FALSE, msg |-> MsgError, db |-> db]
        ELSE LET total_orig == db.compras[id_compra].total
                 pagado == PagadoProveedor(tx1.abonos_proveedores, id_compra)
             IN  [ok |-> TRUE, msg |-> "Abono registrado correctamente",
                  db |-> IF pagado >= total_orig
                         THEN [tx1 EXCEPT !.compras[id_compra].estado = "Pagado"]
                         ELSE tx1]

RegistrarCompra(id_prov, items, metodo_pago, total) ==
    /\ LET r == registrar_compra(Almacen, id_prov, items, metodo_pago, total)
       IN  /\ compras' = r.db.compras
           /\ detalle_compras' = r.db.detalle_compras
           /\ productos' = r.db.productos
           /\ gastos' = r.db.gastos
           /\ ult' = [op |-> "registrar_compra", prov |-> id_prov, items |-> items,
                      metodo |-> metodo_pago, total |-> total, ok |-> r.ok]
    /\ UNCHANGED <<agenda, pagos, seq_pagos, ventas, fiado, cartera, abonos_proveedores,
                   hilos>>

AbonarProveedor(id_compra, monto, metodo) ==
    /\ LET r == abonar_proveedor(Almacen, id_compra, monto, metodo)
       IN  /\ compras' = r.db.compras
           /\ abonos_proveedores' = r.db.abonos_proveedores
           /\ gastos' = r.db.gastos
           /\ ult' = [op |-> "abonar_proveedor", id |-> id_compra, monto |-> monto,
                      metodo |-> metodo, ok |-> r.ok]
    /\ UNCHANGED <<agenda, productos, pagos, seq_pagos, ventas, fiado, cartera,
                   detalle_compras, hilos>>

----------------------------------------------------------------------------
(* SpecCompras: purchases and the installments paid to the suppliers *)

MaxCompras == 2
MaxTotal == 2
MaxAbonosProv == 2

\* The supplier is a row of terceros the purchase refers to by id
ProveedoresEntrada == {7}
\* Product 9 is in no row of productos
ItemsCompra == [prod : {1, 9}, cant : {2}, costo : {1}]

InitCompras ==
    /\ citas = <<>>
    /\ bloqueos = <<>>
    /\ clientes = {}
    /\ terceros = TercerosSemilla
    /\ productos = [x \in ProductosInit |-> 0]
    /\ pagos = <<>>
    /\ seq_pagos = 0
    /\ fiado = <<>>
    /\ LibrosVacios
    /\ ventas = <<>>
    /\ gastos = <<>>
    /\ hilos = HilosQuietos
    /\ ult = SinLlamada

NextCompras ==
    \/ \E prov \in ProveedoresEntrada, items \in SeqsHasta(ItemsCompra, 1),
          met \in {"CREDITO", "Efectivo"}, total \in 1..MaxTotal :
          /\ Len(compras) < MaxCompras
          /\ RegistrarCompra(prov, items, met, total)
    \/ \E id \in 1..(Len(compras) + 1), monto \in 1..MaxTotal, met \in MetodosAbono :
          /\ Len(abonos_proveedores) < MaxAbonosProv
          /\ AbonarProveedor(id, monto, met)

SpecCompras == InitCompras /\ [][NextCompras]_vars

----------------------------------------------------------------------------
(* SpecNomina: appointments are paid at the cash desk and settled by payroll *)

MaxPagos == 2

\* The two appointments of CitasCobroInit, each pending or already paid
InitNomina ==
    /\ citas \in {cs \in [1..2 -> {[CitasCobroInit[i] EXCEPT !.estado = e] :
                                      i \in 1..2, e \in {"Pendiente", "Pagado"}}] :
                     \A i \in 1..2 : cs[i].pro = CitasCobroInit[i].pro}
    /\ bloqueos = <<>>
    /\ clientes = {Tel}
    /\ terceros = TercerosConCliente
    /\ productos = [x \in ProductosInit |-> 0]
    /\ pagos = <<>>
    /\ seq_pagos = 0
    /\ fiado = <<>>
    /\ LibrosVacios
    /\ ventas = <<>>
    /\ gastos = <<>>
    /\ hilos = HilosQuietos
    /\ ult = SinLlamada

NextNomina ==
    \/ \E ids \in {<<1>>, <<1, 2>>}, lista \in ListasNomina, p \in {"Andrea", "Nadie"} :
          /\ Len(gastos) < MaxGastos
          /\ PagarNomina(ids, 0, lista, p)
    \/ \E ids \in {<<1>>, <<2>>} :
          /\ Len(pagos) < MaxPagos
          /\ ProcesarCobro(ids, <<[m |-> "Efectivo", v |-> 50000]>>, 0, <<>>)
    \/ \E id \in 1..2 : Cancelar(id)
    \/ Retornar

SpecNomina == InitNomina /\ [][NextNomina]_vars

----------------------------------------------------------------------------
(* SpecLiquidacion: payroll calls that succeed or fail, with two loans of
   Andrea on the books *)

\* Lists whose last entry does not unpack into (met, val)
ListasRotas == { << <<"Efectivo", 25000>>, <<"Nequi">> >> }

InitLiquidacion ==
    \E m1 \in 1..MaxPrestamo, m2 \in 1..MaxPrestamo :
        LET vacio == [citas |-> [CitasCobroInit EXCEPT ![1].estado = "Pagado"],
                      pagos |-> <<>>, seq_pagos |-> 0, gastos |-> <<>>,
                      prestamos |-> <<>>, abonos_prestamos |-> <<>>]
            db == crear_prestamo(crear_prestamo(vacio, "Andrea", m1, "Adelanto").db,
                                 "Andrea", m2, "Adelanto").db
        IN  /\ citas = db.citas
            /\ bloqueos = <<>>
            /\ clientes = {Tel}
            /\ terceros = TercerosConCliente
            /\ productos = [x \in ProductosInit |-> 0]
            /\ pagos = <<>>
            /\ seq_pagos = 0
            /\ fiado = <<>>
            /\ prestamos = db.prestamos
            /\ abonos_prestamos = <<>>
            /\ prestado = <<m1, m2>>
            /\ compras = <<>>
            /\ detalle_compras = <<>>
            /\ abonos_proveedores = <<>>
            /\ ventas = <<>>
            /\ gastos = db.gastos
            /\ hilos = HilosQuietos
            /\ ult = SinLlamada

NextLiquidacion ==
    \E ids \in {<<1>>, <<1, 2>>}, abono \in 0..(MaxPrestamo + 1),
       lista \in ListasNomina \cup ListasRotas, p \in {"Andrea", "Nadie"} :
        /\ Len(gastos) < MaxGastos + 2
        /\ PagarNomina(ids, abono, lista, p)

SpecLiquidacion == InitLiquidacion /\ [][NextLiquidacion]_vars

----------------------------------------------------------------------------
(* SpecKardex: the loan ledger read from books written over several days *)

MaxEventos == 4
\* The days on which the calls are made
DiasLibro == {1, 2}

\* A call that writes the loan tables: crear_prestamo(pro, n),
\* realizar_abono_deuda('PROFESIONAL', id, n) or
\* pagar_nomina_flexible([], n, [], pro)
EventosLibro ==
    { [op |-> "crear_prestamo", pro |-> "Andrea", id |-> 0, n |-> 1],
      [op |-> "crear_prestamo", pro |-> "Andrea", id |-> 0, n |-> 2],
      [op |-> "crear_prestamo", pro |-> "Lennys", id |-> 0, n |-> 1],
      [op |-> "realizar_abono_deuda", pro |-> "", id |-> 1, n |-> 1],
      [op |-> "pagar_nomina_flexible", pro |-> "Andrea", id |-> 0, n |-> 2] }

\* hoy_iso = datetime.now().strftime("%Y-%m-%d") on the day of the call: the
\* rows the call appended carry that day
EnFecha(antes, despues, dia) ==
    LET Sellar(viejas, nuevas) ==
            [i \in 1..Len(nuevas) |->
                IF i > Len(viejas) THEN [nuevas[i] EXCEPT !.fecha = FechaISO(dia)]
                ELSE nuevas[i]]
    IN  [despues EXCEPT !.prestamos = Sellar(antes.prestamos, @),
                        !.abonos_prestamos = Sellar(antes.abonos_prestamos, @),
                        !.gastos = Sellar(antes.gastos, @),
                        !.pagos = [i \in 1..Len(@) |->
                                      IF @[i].id > antes.seq_pagos
                                      THEN [@[i] EXCEPT !.fecha = FechaISO(dia)]
                                      ELSE @[i]]]

\* The books after the first k calls of evs, call i made on day dias[i]
RECURSIVE LibroTras(_, _, _)
LibroTras(evs, dias, k) ==
    IF k = 0
    THEN [citas |-> CitasCobroInit, pagos |-> <<>>, seq_pagos |-> 0, gastos |-> <<>>,
          prestamos |-> <<>>, abonos_prestamos |-> <<>>]
    ELSE LET antes == LibroTras(evs, dias, k - 1)
             e == evs[k]
             r == CASE e.op = "crear_prestamo" -> crear_prestamo(antes, e.pro, e.n, "Adelanto")
                    [] e.op = "realizar_abono_deuda" ->
                          realizar_abono_deuda(antes, "PROFESIONAL", e.id, e.n, "Efectivo")
                    [] OTHER -> pagar_nomina_flexible(antes, <<>>, e.n, <<>>, e.pro)
         IN  EnFecha(antes, r.db, dias[k])

InitKardex ==
    \E evs \in SeqsHasta(EventosLibro, MaxEventos) :
        \E dias \in [1..Len(evs) -> DiasLibro] :
            LET db == LibroTras(evs, dias, Len(evs))
                creados == SelectSeq(evs, LAMBDA e : e.op = "crear_prestamo")
            IN  /\ \A i \in 1..Len(evs), j \in 1..Len(evs) : i <= j => dias[i] <= dias[j]
                /\ citas = db.citas
                /\ bloqueos = <<>>
                /\ clientes = {Tel}
                /\ terceros = TercerosConCliente
                /\ productos = [x \in ProductosInit |-> 0]
                /\ pagos = <<>>
                /\ seq_pagos = 0
                /\ fiado = <<>>
                /\ prestamos = db.prestamos
                /\ abonos_prestamos = db.abonos_prestamos
                /\ prestado = [i \in 1..Len(creados) |-> creados[i].n]
                /\ compras = <<>>
                /\ detalle_compras = <<>>
                /\ abonos_proveedores = <<>>
                /\ ventas = <<>>
                /\ gastos = db.gastos
                /\ hilos = HilosQuietos
                /\ ult = SinLlamada

\* traer_kardex_prestamos(profesional): a read, its result kept in ult
Kardex(profesional) ==
    /\ ult' = [op |-> "traer_kardex_prestamos", pro |-> profesional,
               kardex |-> traer_kardex_prestamos(Libro, profesional)]
    /\ UNCHANGED <<agenda, caja, libros, hilos>>

NextKardex == \E p \in {"Andrea", "Lennys", "Nadie"} : Kardex(p)

SpecKardex == InitKardex /\ [][NextKardex]_vars

----------------------------------------------------------------------------
(* SpecReportes: the read operations, on books written over two days *)

MaxLlamadas == 3

\* A call that writes the books: a sale, a loan, a payment on a debt or a
\* payroll
EventosCaja ==
    { [op |-> "procesar_cobro", tipo |-> "", pro |-> "", id |-> 1, n |-> 1, met |-> "",
       pagos |-> <<[m |-> "Efectivo", v |-> 1], [m |-> "CREDITO", v |-> 2]>>],
      [op |-> "procesar_cobro", tipo |-> "", pro |-> "", id |-> 2, n |-> 0, met |-> "",
       pagos |-> <<[m |-> "Nequi", v |-> 3]>>],
      [op |-> "crear_prestamo", tipo |-> "", pro |-> "Andrea", id |-> 0, n |-> 2, met |-> "",
       pagos |-> <<>>],
      [op |-> "realizar_abono_deuda", tipo |-> "PROFESIONAL", pro |-> "", id |-> 1, n |-> 1,
       met |-> "Nequi", pagos |-> <<>>],
      [op |-> "realizar_abono_deuda", tipo |-> "CLIENTE", pro |-> "", id |-> 2, n |-> 1,
       met |-> "Efectivo", pagos |-> <<>>],
      [op |-> "pagar_nomina_flexible", tipo |-> "", pro |-> "Andrea", id |-> 1, n |-> 1,
       met |-> "Efectivo", pagos |-> <<>>] }

\* The call of an event on the books db: procesar_cobro([id], pagos, n, []),
\* crear_prestamo(pro, n, 'Adelanto'), realizar_abono_deuda(tipo, id, n, met)
\* or pagar_nomina_flexible([id], n, [(met, 4)], pro)
Llamar(db, e) ==
    CASE e.op = "procesar_cobro" -> procesar_cobro(db, <<e.id>>, e.pagos, e.n, <<>>)
      [] e.op = "crear_prestamo" -> crear_prestamo(db, e.pro, e.n, "Adelanto")
      [] e.op = "realizar_abono_deuda" -> realizar_abono_deuda(db, e.tipo, e.id, e.n, e.met)
      [] OTHER -> pagar_nomina_flexible(db, <<e.id>>, e.n, << <<e.met, 4>> >>, e.pro)

\* The books after the first k calls of evs, call i made on day dias[i], with
\* the history of the amounts lent and sold on credit
RECURSIVE CajaTras(_, _, _)
CajaTras(evs, dias, k) ==
    IF k = 0
    THEN [citas |-> CitasCobroInit, productos |-> [x \in ProductosInit |-> 0],
          pagos |-> <<>>, seq_pagos |-> 0, ventas |-> <<>>, gastos |-> <<>>,
          prestamos |-> <<>>, abonos_prestamos |-> <<>>, prestado |-> <<>>,
          fiado |-> <<>>]
    ELSE LET antes == CajaTras(evs, dias, k - 1)
             r == Llamar(antes, evs[k])
             db == EnFecha(antes, r.db, dias[k])
         IN  [db EXCEPT !.prestado = IF evs[k].op = "crear_prestamo" /\ r.ok
                                     THEN Append(@, evs[k].n) ELSE @,
                        !.fiado = Fiado(@, antes.pagos, db.pagos)]

InitReportes ==
    \E evs \in SeqsHasta(EventosCaja, MaxLlamadas) :
        \E dias \in [1..Len(evs) -> DiasLibro] :
            LET db == CajaTras(evs, dias, Len(evs))
            IN  /\ \A i \in 1..Len(evs), j \in 1..Len(evs) : i <= j => dias[i] <= dias[j]
                /\ citas = db.citas
                /\ bloqueos \in SeqsHasta({FilaBloqueo(0, FechaISO(1), 570, 630, "Almuerzo")},
                                          MaxBloqueos)
                /\ clientes = {Tel}
                /\ terceros = TercerosConCliente
                /\ productos = db.productos
                /\ pagos = db.pagos
                /\ seq_pagos = db.seq_pagos
                /\ fiado = db.fiado
                /\ prestamos = db.prestamos
                /\ abonos_prestamos = db.abonos_prestamos
                /\ prestado = db.prestado
                /\ compras = <<>>
                /\ detalle_compras = <<>>
                /\ abonos_proveedores = <<>>
                /\ ventas = db.ventas
                /\ gastos = db.gastos
                /\ hilos = HilosQuietos
                /\ ult = SinLlamada

\* The two days of the books, one given in each form
RangosEntrada == { <<FechaUI(1), FechaUI(1)>>, <<FechaUI(1), FechaISO(2)>>,
                   <<FechaISO(2), FechaUI(2)>> }

NextReportes ==
    \/ \E f \in FechasEntrada, p \in NombresEntrada : ValidarChoque(f, 570, 30, p)
    \/ \E f \in FechasEntrada : Habilitados(f)
    \/ \E f \in FechasEntrada : CierreCaja(f)
    \/ \E r \in RangosEntrada : BalanceFinanciero(r[1], r[2])
    \/ \E p \in NombresEntrada : Kardex(p)

SpecReportes == InitReportes /\ [][NextReportes]_vars

----------------------------------------------------------------------------
(* SpecEstados: the life of two appointments, from any status *)

MaxVentas == 1

EstadosCita == {"Pendiente", "Reagendado", "Por Cobrar", "Pagado", "Cancelado"}

\* The two appointments of CitasCobroInit, each in any status
InitEstados ==
    /\ citas \in {cs \in [1..2 -> {[CitasCobroInit[i] EXCEPT !.estado = e] :
                                      i \in 1..2, e \in EstadosCita}] :
                     \A i \in 1..2 : cs[i].pro = CitasCobroInit[i].pro}
    /\ bloqueos = <<>>
    /\ clientes = {Tel}
    /\ terceros = TercerosConCliente
    /\ productos = [x \in ProductosInit |-> 0]
    /\ pagos = <<>>
    /\ seq_pagos = 0
    /\ fiado = <<>>
    /\ LibrosVacios
    /\ ventas = <<>>
    /\ gastos = <<>>
    /\ hilos = HilosQuietos
    /\ ult = SinLlamada

NextEstados ==
    \/ \E ids \in {<<1>>, <<1, 2>>} :
          /\ seq_pagos < MaxVentas
          /\ ProcesarCobro(ids, <<[m |-> "CREDITO", v |-> 1]>>, 0, <<>>)
    \/ \E id \in 1..2, p \in {"Andrea", "Nadie"} : Reagendar(id, FechaUI(2), 540, p)
    \/ \E id \in 1..2 : Cancelar(id)
    \/ \E id \in 1..2 : ConfirmarAsistencia(id)
    \/ \E id \in 1..seq_pagos :
          /\ seq_pagos < MaxPagos
          /\ RealizarAbono("CLIENTE", id, 1, "Efectivo")
    \/ PagarNomina(<<1>>, 0, <<>>, "Andrea")
    \/ Retornar

SpecEstados == InitEstados /\ [][NextEstados]_vars

----------------------------------------------------------------------------
(* SpecAbonos: two realizar_abono_deuda('PROFESIONAL', ...) calls served at *)
(* the same time, each on a connection of its own.  The SELECT runs outside *)
(* any transaction; the INSERT opens one and takes the write lock of the    *)
(* database, which the commit after the UPDATE releases.                    *)

AbonosCarrera == [pc : {"leer"}, id : {1, 2}, monto : 1..MaxPrestamo, leido : {0}, ok : {FALSE}]

\* One loan of Andrea is on the books
InitAbonos ==
    \E p \in 1..(MaxPrestamo + 1) :
        LET vacio == [citas |-> CitasCobroInit, pagos |-> <<>>, seq_pagos |-> 0,
                      gastos |-> <<>>, prestamos |-> <<>>, abonos_prestamos |-> <<>>]
            db == crear_prestamo(vacio, "Andrea", p, "Adelanto").db
        IN  /\ citas = db.citas
            /\ bloqueos = <<>>
            /\ clientes = {Tel}
            /\ terceros = TercerosConCliente
            /\ productos = [x \in ProductosInit |-> 0]
            /\ pagos = <<>>
            /\ seq_pagos = 0
            /\ fiado = <<>>
            /\ prestamos = db.prestamos
            /\ abonos_prestamos = <<>>
            /\ prestado = <<p>>
            /\ compras = <<>>
            /\ detalle_compras = <<>>
            /\ abonos_proveedores = <<>>
            /\ ventas = <<>>
            /\ gastos = db.gastos
            /\ hilos \in [Hilos -> AbonosCarrera]
            /\ ult = SinLlamada

\* modelo.py lines 704-706: SELECT monto FROM prestamos WHERE id=?; a loan
\* that is not found ends the call with (False, "No encontrado")
HiloLee(t) ==
    /\ hilos[t].pc = "leer"
    /\ hilos' = [hilos EXCEPT ![t] =
                    IF hilos[t].id \in 1..Len(prestamos)
                    THEN [@ EXCEPT !.pc = "insertar", !.leido = prestamos[hilos[t].id].monto]
                    ELSE [@ EXCEPT !.pc = "hecho", !.ok = FALSE]]
    /\ UNCHANGED <<agenda, caja, libros, ult>>

\* modelo.py lines 708-709: the INSERT begins the transaction and takes the
\* write lock, once no other connection holds it; the row is not visible to
\* the other connection until the commit
HiloInserta(t) ==
    /\ hilos[t].pc = "insertar"
    /\ \A u \in Hilos \ {t} : hilos[u].pc # "escribir"
    /\ hilos' = [hilos EXCEPT ![t] = [@ EXCEPT !.pc = "escribir"]]
    /\ UNCHANGED <<agenda, caja, libros, ult>>

\* The write lock stays with the other connection past the busy timeout: the
\* INSERT raises 'database is locked', the call rolls back and returns failure
HiloBloqueado(t) ==
    /\ hilos[t].pc = "insertar"
    /\ \E u \in Hilos \ {t} : hilos[u].pc = "escribir"
    /\ hilos' = [hilos EXCEPT ![t] = [@ EXCEPT !.pc = "hecho", !.ok = FALSE]]
    /\ UNCHANGED <<agenda, caja, libros, ult>>

\* modelo.py lines 711-717: nuevo_saldo from the amount read at line 704, the
\* UPDATE and the commit, which publishes the installment and the new amount
HiloEscribe(t) ==
    /\ hilos[t].pc = "escribir"
    /\ LET leida == [Libro EXCEPT !.prestamos[hilos[t].id].monto = hilos[t].leido]
           r == abono_profesional(leida, hilos[t].id, hilos[t].monto, "Efectivo")
       IN  /\ prestamos' = r.db.prestamos
           /\ abonos_prestamos' = r.db.abonos_prestamos
           /\ hilos' = [hilos EXCEPT ![t] = [@ EXCEPT !.pc = "hecho", !.ok = r.ok]]
    /\ UNCHANGED <<agenda, caja, prestado, proveedores, ult>>

NextAbonos ==
    \/ \E t \in Hilos : HiloLee(t)
    \/ \E t \in Hilos : HiloInserta(t)
    \/ \E t \in Hilos : HiloBloqueado(t)
    \/ \E t \in Hilos : HiloEscribe(t)

SpecAbonos == InitAbonos /\ [][NextAbonos]_vars

----------------------------------------------------------------------------
(* SpecVentas: two procesar_cobro calls served at the same time, each on a  *)
(* connection of its own.  The first statement of a call, UPDATE citas,     *)
(* begins the transaction and takes the write lock of the database; the     *)
(* stock is read and written under that lock, and the commit releases it.   *)

CarritosCarrera == SeqsHasta([prod : {1, 2}, cant : {1, 2}, unit : {10000}], MaxItems) \ {<<>>}

\* Call t pays appointment t in cash; antes is the stock on the shelves when
\* the two calls arrive
VentasCarrera(stock) ==
    [pc : {"marcar"}, carrito : CarritosCarrera, antes : {stock},
     tx : {BaseDatos(CitasCobroInit, stock, <<>>, 0, <<>>, <<>>)}, ok : {FALSE}]

InitVentas ==
    /\ citas = CitasCobroInit
    /\ bloqueos = <<>>
    /\ clientes = {Tel}
    /\ terceros = TercerosConCliente
    /\ productos \in [ProductosInit -> 0..MaxStock]
    /\ pagos = <<>>
    /\ seq_pagos = 0
    /\ fiado = <<>>
    /\ LibrosVacios
    /\ ventas = <<>>
    /\ gastos = <<>>
    /\ hilos \in [Hilos -> VentasCarrera(productos)]
    /\ ult = SinLlamada

\* Faulty variant of HiloMarca: the UPDATE does not wait for the write lock
HiloMarca_sin_cerrojo(t) ==
    /\ hilos[t].pc = "marcar"
    /\ hilos' = [hilos EXCEPT ![t] = [@ EXCEPT !.pc = "vender"]]
    /\ UNCHANGED <<agenda, caja, libros, ult>>

\* modelo.py lines 633-634: the first UPDATE begins the transaction and takes
\* the write lock, once no other connection holds it
HiloMarca(t) ==
    /\ hilos[t].pc = "marcar"
    /\ \A u \in Hilos \ {t} : hilos[u].pc \notin {"vender", "confirmar"}
    /\ hilos' = [hilos EXCEPT ![t] = [@ EXCEPT !.pc = "vender"]]
    /\ UNCHANGED <<agenda, caja, libros, ult>>

\* The write lock stays with the other connection past the busy timeout: the
\* UPDATE raises 'database is locked', the call rolls back and returns failure
HiloSinCerrojo(t) ==
    /\ hilos[t].pc = "marcar"
    /\ \E u \in Hilos \ {t} : hilos[u].pc \in {"vender", "confirmar"}
    /\ hilos' = [hilos EXCEPT ![t] = [@ EXCEPT !.pc = "hecho", !.ok = FALSE]]
    /\ UNCHANGED <<agenda, caja, libros, ult>>

\* modelo.py lines 633-655: the statements of the call, run on what is
\* committed in the database; what they write stays in the connection.  An
\* item short of stock raises: the call rolls back and returns failure
HiloVende(t) ==
    /\ hilos[t].pc = "vender"
    /\ LET r == procesar_cobro(BaseDatos(citas, productos, pagos, seq_pagos, ventas, gastos),
                               <<t>>, <<[m |-> "Efectivo", v |-> 50000]>>, 0,
                               hilos[t].carrito)
       IN  hilos' = [hilos EXCEPT ![t] =
                        IF r.ok THEN [@ EXCEPT !.pc = "confirmar", !.tx = r.db]
                        ELSE [@ EXCEPT !.pc = "hecho", !.ok = FALSE]]
    /\ UNCHANGED <<agenda, caja, libros, ult>>

\* modelo.py lines 657-658: conn.commit() publishes what the call wrote and
\* releases the write lock
HiloConfirma(t) ==
    /\ hilos[t].pc = "confirmar"
    /\ citas' = hilos[t].tx.citas
    /\ productos' = hilos[t].tx.productos
    /\ pagos' = hilos[t].tx.pagos
    /\ seq_pagos' = hilos[t].tx.seq_pagos
    /\ ventas' = hilos[t].tx.ventas
    /\ gastos' = hilos[t].tx.gastos
    /\ hilos' = [hilos EXCEPT ![t] = [@ EXCEPT !.pc = "hecho", !.ok = TRUE]]
    /\ UNCHANGED <<bloqueos, clientes, terceros, fiado, libros, ult>>

NextVentas ==
    \/ \E t \in Hilos : HiloMarca(t)
    \/ \E t \in Hilos : HiloSinCerrojo(t)
    \/ \E t \in Hilos : HiloVende(t)
    \/ \E t \in Hilos : HiloConfirma(t)

SpecVentas == InitVentas /\ [][NextVentas]_vars

----------------------------------------------------------------------------

(* SpecMedianoche: the agenda, with calls that start late in the day *)

\* 09:00, 23:30
HorasTarde == {540, 1410}

CitasTarde ==
    [profesional : {"Andrea", "Nadie"}, servicio : {"Cejas 3D", "Diseno"},
     fecha : {FechaUI(1)}, hora : HorasTarde, telefono : {Tel}]

NextMedianoche ==
    \/ \E cita \in CitasTarde : Agendar(cita)
    \/ \E id \in 1..(Len(citas) + 1), f \in FechasEntrada, h \in HorasTarde,
          p \in {"Andrea", "Lennys"} : Reagendar(id, f, h, p)
    \/ \E p \in {"TODOS", "Andrea", "Nadie"}, f \in FechasEntrada,
          fr \in FranjasEntrada, m \in MotivosEntrada : CrearBloqueo(p, f, f, fr, m)
    \/ \E f \in FechasEntrada, ho \in HorariosEntrada :
          /\ Len(establecer_horario_global(bloqueos, f, ho[1], ho[2])) <= MaxBloqueos
          /\ EstablecerHorario(f, ho)
    \/ Retornar

SpecMedianoche == InitAgenda /\ [][NextMedianoche]_vars

----------------------------------------------------------------------------

(* SpecTerceros: the directory, saved through guardar_tercero *)

MaxTerceros == 4

\* What the form sends: a new entity (id 0) or the id of a row, with or
\* without a document
DatosEntrada ==
    [id : 0..MaxTerceros, doc_id : {Nulo, "1001", "1002"}, n1 : {"Ana"}, a1 : {"", "Paz"},
     telefono : {Tel}, es_cliente : {TRUE}, es_proveedor : {FALSE},
     es_empleado : {FALSE}]

InitTerceros ==
    /\ citas = <<>>
    /\ bloqueos = <<>>
    /\ clientes = {Tel}
    /\ terceros = TercerosConCliente
    /\ productos = <<>>
    /\ pagos = <<>>
    /\ seq_pagos = 0
    /\ fiado = <<>>
    /\ LibrosVacios
    /\ ventas = <<>>
    /\ gastos = <<>>
    /\ hilos = HilosQuietos
    /\ ult = SinLlamada

NextTerceros ==
    \/ \E datos \in DatosEntrada :
          /\ datos.id <= Len(terceros)
          /\ datos.id = 0 => Len(terceros) < MaxTerceros
          /\ GuardarTercero(datos)
    \/ Retornar

SpecTerceros == InitTerceros /\ [][NextTerceros]_vars

----------------------------------------------------------------------------

(* SpecInventario: sales and purchases, one call after another *)

InitInventario == InitCobro

\* Carts of one item, of one product listed twice and of two products
CarritosInventario ==
    { <<[prod |-> 1, cant |-> 1, unit |-> 10000]>>,
      <<[prod |-> 1, cant |-> 2, unit |-> 10000]>>,
      <<[prod |-> 1, cant |-> 1, unit |-> 10000], [prod |-> 1, cant |-> 1, unit |-> 10000]>>,
      <<[prod |-> 1, cant |-> 1, unit |-> 10000], [prod |-> 2, cant |-> 1, unit |-> 10000]>> }

NextInventario ==
    \/ \E carrito \in CarritosInventario :
          /\ seq_pagos < MaxPagos
          /\ ProcesarCobro(<<1>>, <<[m |-> "Efectivo", v |-> 50000]>>, 0, carrito)
    \/ \E prov \in ProveedoresEntrada, items \in SeqsHasta(ItemsCompra, 1) \ {<<>>} :
          /\ ult = SinLlamada
          /\ Len(compras) < MaxCompras
          /\ RegistrarCompra(prov, items, "Efectivo", 1)
    \/ Retornar

SpecInventario == InitInventario /\ [][NextInventario]_vars

----------------------------------------------------------------------------

(* SpecHorario: the store hours of a day, set again and again *)

MaxFranjas == 2

\* Blocks already in the table: the lunch of everybody on day 1, store hours
\* of day 1 and of day 2, and hours Andrea keeps on day 1
FranjasInit ==
    { FilaBloqueo(0, FechaISO(1), 720, 780, "Almuerzo"),
      FilaBloqueo(0, FechaISO(1), 0, 480, MotivoHorario),
      FilaBloqueo(0, FechaISO(2), 1080, MinutosDia - 1, MotivoHorario),
      FilaBloqueo(1, FechaISO(1), 0, 600, MotivoHorario) }

\* (apertura, cierre): 09:30-18:00, 09:30-23:59, 00:00-18:00, 00:00-23:59
HorariosTienda ==
    { <<570, 1080>>, <<570, MinutosDia - 1>>, <<0, 1080>>, <<0, MinutosDia - 1>> }

InitHorario ==
    /\ citas = <<>>
    /\ bloqueos \in SeqsHasta(FranjasInit, MaxFranjas)
    /\ clientes = {}
    /\ terceros = TercerosSemilla
    /\ productos = <<>>
    /\ pagos = <<>>
    /\ seq_pagos = 0
    /\ fiado = <<>>
    /\ LibrosVacios
    /\ ventas = <<>>
    /\ gastos = <<>>
    /\ hilos = HilosQuietos
    /\ ult = SinLlamada

NextHorario ==
    \/ \E f \in {FechaUI(1), FechaISO(1)}, ho \in HorariosTienda : EstablecerHorario(f, ho)
    \/ Retornar

SpecHorario == InitHorario /\ [][NextHorario]_vars

----------------------------------------------------------------------------

(* SpecErrores: the agenda, with names, start times and stored times that   *)
(* the conflict check cannot use                                            *)

\* 09:30, 10:00 and a text that is not HH:MM
HorasDudosas == {570, 600, MalaHora}

\* 09:30-10:30, and a block whose start was typed wrong
FranjasDudosas == { <<570, 630>>, <<MalaHora, 600>> }

CitasDudosas ==
    [profesional : {"Andrea", "Nadie"}, servicio : {"Diseno"}, fecha : {FechaUI(1)},
     hora : HorasDudosas, telefono : {Tel}]

NextErrores ==
    \/ \E cita \in CitasDudosas : Agendar(cita)
    \/ \E id \in 1..Len(citas), h \in HorasDudosas, p \in {"Andrea", "Nadie"} :
          Reagendar(id, FechaUI(1), h, p)
    \/ \E p \in {"TODOS", "Andrea"}, fr \in FranjasDudosas, m \in MotivosEntrada :
          CrearBloqueo(p, FechaUI(1), FechaUI(1), fr, m)
    \/ \E h \in HorasDudosas, p \in {"Andrea", "Nadie"} :
          ValidarChoque(FechaUI(1), h, 30, p)
    \/ Retornar

SpecErrores == InitAgenda /\ [][NextErrores]_vars

----------------------------------------------------------------------------

(* Properties of the agenda *)

\* The occupied intervals of a professional on a day: the non-cancelled
\* appointments of the professional, the professional's blocks and the
\* global blocks (professional id 0); each is tagged with its table and row.
Ocupados(pid, dia) ==
    {[tabla |-> "citas", fila |-> i, ini |-> citas[i].ini, fin |-> citas[i].fin] :
        i \in {j \in 1..Len(citas) : /\ citas[j].pro = pid
                                     /\ citas[j].fecha = FechaISO(dia)
                                     /\ citas[j].estado # "Cancelado"}}
    \cup
    {[tabla |-> "bloqueos", fila |-> i, ini |-> bloqueos[i].ini, fin |-> bloqueos[i].fin] :
        i \in {j \in 1..Len(bloqueos) : /\ bloqueos[j].pid \in {pid, 0}
                                        /\ bloqueos[j].fecha = FechaISO(dia)}}

IdsEmpleados == {Empleados[i].id : i \in 1..Len(Empleados)}
DiasModelo == {1, 2}

\* C1: in every reachable state, for each professional and date, no two
\* non-cancelled occupied intervals (appointments of the professional, blocks
\* of the professional, global blocks) overlap: no pair has
\* start1 < end2 and end1 > start2.
C1_SinSolapes ==
    \A pid \in IdsEmpleados, dia \in DiasModelo :
        \A x \in Ocupados(pid, dia), y \in Ocupados(pid, dia) :
            x # y => ~(x.ini < y.fin /\ x.fin > y.ini)

\* The employees called by a name, and the duration of a service
EmpleadosDe(nombre) == {e \in {Empleados[i] : i \in 1..Len(Empleados)} : e.nombre = nombre}
DuracionDe(sid) == (CHOOSE x \in {Servicios[i] : i \in 1..Len(Servicios)} : x.id = sid).duracion_min

\* The occupied intervals of (pid, dia) that the window [ini, fin) overlaps
Chocan(pid, dia, ini, fin) == {x \in Ocupados(pid, dia) : ini < x.fin /\ fin > x.ini}

\* C4: validar_choque, for an existing professional, reports a conflict if and
\* only if an occupied interval [a,b) of the professional and date has
\* start < b and end > a, with end = start + duration (so touching endpoints
\* are accepted); when it accepts, it returns the clock time of that end.
C4_ChoqueSiiSolape ==
    (ult.op = "validar_choque" /\ EmpleadosDe(ult.pro) # {}) =>
        \A e \in EmpleadosDe(ult.pro) :
            LET choque == Chocan(e.id, ult.fecha.d, ult.hora, ult.hora + ult.dur) # {}
            IN  /\ ult.ocupado <=> choque
                /\ ~ult.ocupado =>
                      /\ ult.msg.tipo = MsgFin
                      /\ ult.msg.a = (ult.hora + ult.dur) % MinutosDia

\* C4, witness: a request that starts where an occupied interval ends, accepted
C4_Testigo ==
    /\ ult.op = "validar_choque"
    /\ ~ult.ocupado
    /\ \E e \in EmpleadosDe(ult.pro) :
          \E x \in Ocupados(e.id, ult.fecha.d) : x.fin = ult.hora /\ x.ini < x.fin

\* C5: directly after cancelar_cita on an appointment, validar_choque accepts
\* every request for the same professional and date whose window overlaps
\* that appointment and no other occupied interval.
C5_CanceladaNoChoca ==
    (ult.op = "cancelar_cita" /\ ult.id \in 1..Len(citas)) =>
        LET c == citas[ult.id]
            otros(h, d) == {x \in Chocan(c.pro, c.fecha.d, h, h + d) :
                               ~(x.tabla = "citas" /\ x.fila = ult.id)}
        IN  \A h \in HorasLlamada, d \in DuracionesLlamada, e \in {Empleados[i] : i \in 1..Len(Empleados)} :
                (e.id = c.pro /\ h < c.fin /\ h + d > c.ini /\ otros(h, d) = {})
                    => ~validar_choque(citas, bloqueos, c.fecha, h, d, e.nombre).ocupado

\* C5, witness: an appointment just cancelled, and a request over its window
\* that meets nothing else and is accepted
C5_Testigo ==
    /\ ult.op = "cancelar_cita"
    /\ ult.id \in 1..Len(citas)
    /\ citas[ult.id].estado = "Cancelado"
    /\ \E h \in HorasLlamada, d \in DuracionesLlamada, e \in {Empleados[i] : i \in 1..Len(Empleados)} :
          /\ e.id = citas[ult.id].pro
          /\ h < citas[ult.id].fin /\ h + d > citas[ult.id].ini
          /\ Chocan(e.id, citas[ult.id].fecha.d, h, h + d) = {}
          /\ ~validar_choque(citas, bloqueos, citas[ult.id].fecha, h, d, e.nombre).ocupado

\* C6: when the request conflicts with an appointment, the reason is the
\* occupancy reason with the interval of a colliding appointment, also when a
\* block collides too; the block reason, with a colliding block's motive, is
\* returned only when no appointment collides.
C6_CitasAntesQueBloqueos ==
    (ult.op = "validar_choque" /\ EmpleadosDe(ult.pro) # {}) =>
        \A e \in EmpleadosDe(ult.pro) :
            LET ch == Chocan(e.id, ult.fecha.d, ult.hora, ult.hora + ult.dur)
                chC == {x \in ch : x.tabla = "citas"}
                chB == {x \in ch : x.tabla = "bloqueos"}
            IN  /\ chC # {} =>
                      /\ ult.msg.tipo = MsgOcupado
                      /\ \E x \in chC : ult.msg.a = x.ini /\ ult.msg.b = x.fin
                /\ ult.msg.tipo = MsgBloqueado =>
                      /\ chC = {}
                      /\ \E x \in chB : ult.msg.mot = bloqueos[x.fila].motivo

\* C6, witness: an appointment and a block both collide; the reason is the
\* appointment's
C6_Testigo ==
    /\ ult.op = "validar_choque"
    /\ ult.msg.tipo = MsgOcupado
    /\ \E e \in EmpleadosDe(ult.pro) :
          LET ch == Chocan(e.id, ult.fecha.d, ult.hora, ult.hora + ult.dur)
          IN  /\ \E x \in ch : x.tabla = "citas"
              /\ \E x \in ch : x.tabla = "bloqueos"

\* A block that spans the entire day: 00:00-23:59, or 00:00-00:00
BloqueoDiaEntero(b) == b.ini = 0 /\ b.fin \in {MinutosDia - 1, 0}
BloqueosDelDia(dia) == {bloqueos[i] : i \in {j \in 1..Len(bloqueos) : bloqueos[j].fecha = FechaISO(dia)}}

\* C7: traer_profesionales_habilitados_por_fecha returns the empty list when a
\* global block spanning the entire day exists on the date; otherwise it
\* returns exactly the employees with no full-day block of their own, once each.
C7_Habilitados ==
    ult.op = "traer_profesionales_habilitados_por_fecha" =>
        LET bd == BloqueosDelDia(ult.fecha.d)
            cierre == \E b \in bd : b.pid = 0 /\ BloqueoDiaEntero(b)
            libres == {e.nombre : e \in {x \in {Empleados[i] : i \in 1..Len(Empleados)} :
                          ~\E b \in bd : b.pid = x.id /\ BloqueoDiaEntero(b)}}
        IN  /\ cierre => ult.lista = <<>>
            /\ ~cierre => /\ {ult.lista[i] : i \in 1..Len(ult.lista)} = libres
                          /\ Len(ult.lista) = Cardinality(libres)

\* C7, witness: a global block 00:00-23:59 on the date, and the empty list
C7_Testigo ==
    /\ ult.op = "traer_profesionales_habilitados_por_fecha"
    /\ ult.lista = <<>>
    /\ \E b \in BloqueosDelDia(ult.fecha.d) : b.pid = 0 /\ b.ini = 0 /\ b.fin = MinutosDia - 1

\* C8: a successful reagendar_cita sets the appointment's professional, date
\* and start to the requested values, its end to start + the duration of the
\* appointment's service (as a clock time), its status to Reagendado, and
\* changes no other appointment.
C8_ReagendarExito ==
    [][(ult'.op = "reagendar_cita" /\ ult'.ok) =>
          /\ ult'.id \in 1..Len(citas)
          /\ Len(citas') = Len(citas)
          /\ \E e \in EmpleadosDe(ult'.pro) : citas'[ult'.id].pro = e.id
          /\ citas'[ult'.id].fecha = FechaISO(ult'.fecha.d)
          /\ citas'[ult'.id].ini = ult'.hora
          /\ citas'[ult'.id].fin = (ult'.hora + DuracionDe(citas[ult'.id].srv)) % MinutosDia
          /\ citas'[ult'.id].estado = "Reagendado"
          /\ \A j \in 1..Len(citas) : j # ult'.id => citas'[j] = citas[j]]_vars

\* C8, witness: an appointment rescheduled while another one exists
C8_Testigo ==
    /\ ult.op = "reagendar_cita"
    /\ ult.ok
    /\ Len(citas) >= 2
    /\ citas[ult.id].estado = "Reagendado"

\* C9: when reagendar_cita fails, because the appointment does not exist or
\* because validar_choque reports a conflict at the new slot, it returns
\* failure with the reason and no field of any appointment changes.
C9_ReagendarFallo ==
    [][ult'.op = "reagendar_cita" =>
          LET existe == ult'.id \in 1..Len(citas)
              choque == \/ EmpleadosDe(ult'.pro) = {}
                        \/ \E e \in EmpleadosDe(ult'.pro) :
                              Chocan(e.id, ult'.fecha.d, ult'.hora,
                                     ult'.hora + DuracionDe(citas[ult'.id].srv)) # {}
          IN  /\ ~existe => ~ult'.ok /\ ult'.msg.tipo = "Cita no existe"
              /\ (existe /\ choque) =>
                    ~ult'.ok /\ ult'.msg.tipo \in {MsgOcupado, MsgBloqueado, MsgError}
              /\ ~ult'.ok => citas' = citas]_vars

\* C9, witness: a reschedule of a stored appointment refused because the
\* slot is occupied
C9_Testigo ==
    /\ ult.op = "reagendar_cita"
    /\ ~ult.ok
    /\ ult.msg.tipo = MsgOcupado
    /\ ult.id \in 1..Len(citas)

----------------------------------------------------------------------------
(* Properties of concurrent bookings and of the booking commit *)

Ventana(cita) ==
    [ini |-> cita.hora,
     fin |-> cita.hora + get_info_servicio(cita.servicio)[1].duracion_min]

\* C2: of two concurrent /agendar requests for the same professional, the
\* same date and overlapping windows, at most one commits an appointment,
\* under every interleaving of their check and insert steps.
C2_SoloUnaReserva ==
    (\A t \in Hilos : hilos[t].pc = "hecho" /\ hilos[t].ok) =>
        ~ /\ hilos[1].cita.profesional = hilos[2].cita.profesional
          /\ f_to_iso(hilos[1].cita.fecha) = f_to_iso(hilos[2].cita.fecha)
          /\ Ventana(hilos[1].cita).ini < Ventana(hilos[2].cita).fin
          /\ Ventana(hilos[1].cita).fin > Ventana(hilos[2].cita).ini

\* C3: guardar_paquete_citas never inserts an appointment that overlaps an
\* existing non-cancelled appointment or applicable block of the same
\* professional and date, nor two overlapping items of one cart.
C3_GuardarRevalida ==
    (ult.op = "guardar_paquete_citas" /\ ult.ok) =>
        \A i \in (ult.antes + 1)..Len(citas) :
            \A x \in Ocupados(citas[i].pro, citas[i].fecha.d) :
                ~(x.tabla = "citas" /\ x.fila = i) =>
                    ~(citas[i].ini < x.fin /\ citas[i].fin > x.ini)

----------------------------------------------------------------------------
(* Properties of the cash desk *)

\* The quantity of a product requested by the items before the k-th
RECURSIVE PedidoAntes(_, _, _)
PedidoAntes(carrito, k, prod) ==
    IF k <= 1 THEN 0
    ELSE PedidoAntes(carrito, k - 1, prod)
         + (IF carrito[k - 1].prod = prod THEN carrito[k - 1].cant ELSE 0)

\* C10: procesar_cobro is all-or-nothing: if a cart item asks for more than
\* the stock left when it is processed, or for a product that does not exist,
\* the call fails; and a failed call leaves stock, appointments, payments,
\* product sales and expenses as they were before it.
C10_CobroTodoONada ==
    [][ult'.op = "procesar_cobro" =>
          LET falta == \E k \in 1..Len(ult'.carrito) :
                          LET it == ult'.carrito[k]
                          IN  \/ it.prod \notin DOMAIN productos
                              \/ it.cant > productos[it.prod]
                                            - PedidoAntes(ult'.carrito, k, it.prod)
          IN  /\ falta => ~ult'.ok
              /\ ~ult'.ok => /\ productos' = productos
                             /\ citas' = citas
                             /\ pagos' = pagos
                             /\ ventas' = ventas
                             /\ gastos' = gastos]_vars

\* C10, witness: a sale refused at its second item, the first one in stock
C10_Testigo ==
    /\ ult.op = "procesar_cobro"
    /\ ~ult.ok
    /\ Len(ult.carrito) = 2
    /\ ult.carrito[1].prod \in DOMAIN productos
    /\ ult.carrito[1].cant <= productos[ult.carrito[1].prod]
    /\ ult.descuento > 0

----------------------------------------------------------------------------
(* Properties of a successful sale *)

\* The payment entries of a sale whose amount is positive, in their order
Cobrados(pagos_in) == SelectSeq(pagos_in, LAMBDA x : x.v > 0)

\* C11: a successful procesar_cobro marks every listed appointment Pagado,
\* lowers the stock of each cart product by exactly the quantity asked for,
\* inserts exactly one payment row for each payment entry of amount > 0 and
\* none for an entry of amount 0, and inserts one expense row of category
\* 'Descuento Ventas' with the discount value if and only if the discount is
\* > 0.
C11_CobroExitoso ==
    [][(ult'.op = "procesar_cobro" /\ ult'.ok) =>
          LET ids == ult'.ids
              carrito == ult'.carrito
              cob == Cobrados(ult'.pagos)
              d == ult'.descuento
          IN  /\ \A k \in 1..Len(ids) :
                    ids[k] \in 1..Len(citas) => citas'[ids[k]].estado = "Pagado"
              /\ Len(citas') = Len(citas)
              /\ \A p \in DOMAIN productos :
                    productos'[p] = productos[p] - PedidoAntes(carrito, Len(carrito) + 1, p)
              /\ Len(pagos') = Len(pagos) + Len(cob)
              /\ \A j \in 1..Len(cob) :
                    /\ pagos'[Len(pagos) + j].metodo = cob[j].m
                    /\ pagos'[Len(pagos) + j].monto = cob[j].v
                    /\ pagos'[Len(pagos) + j].monto > 0
              /\ \A i \in 1..Len(pagos) : pagos'[i] = pagos[i]
              /\ IF d > 0
                 THEN /\ Len(gastos') = Len(gastos) + 1
                      /\ gastos'[Len(gastos')].categoria = "Descuento Ventas"
                      /\ gastos'[Len(gastos')].valor = d
                      /\ \A i \in 1..Len(gastos) : gastos'[i] = gastos[i]
                 ELSE gastos' = gastos]_vars

\* C11, witness: a sale of two appointments and two products that succeeded,
\* with a payment entry of amount 0 and a discount
C11_Testigo ==
    /\ ult.op = "procesar_cobro"
    /\ ult.ok
    /\ Len(ult.ids) = 2
    /\ Len(ult.carrito) = 2
    /\ \E k \in 1..Len(ult.pagos) : ult.pagos[k].v = 0
    /\ ult.descuento > 0
    /\ Len(pagos) = 1
    /\ Len(gastos) = 1

----------------------------------------------------------------------------
(* Properties of the settlement of client credit *)

\* The rows of pagos with a given id (none or one)
FilasDePago(pg, c) == SelectSeq(pg, LAMBDA r : r.id = c)

\* What is still owed on the credit payment c: the amount of its row, 0 when
\* the row is gone
RestoCredito(c) ==
    LET f == FilasDePago(pagos, c) IN IF f = <<>> THEN 0 ELSE f[1].monto

\* The non-credit payment rows the settlement calls recorded for a sale
Recaudos(cita) ==
    SelectSeq(pagos, LAMBDA r : /\ r.cita_id = cita
                                /\ r.metodo # "CREDITO"
                                /\ r.descripcion_extra \in {"Abono Credito",
                                                            "Pago Deuda Credito"})

Recaudado(cita) == SumaSeq([i \in 1..Len(Recaudos(cita)) |-> Recaudos(cita)[i].monto])

\* C12: for a credit payment of amount A settled by calls of realizar_abono_deuda
\* ('CLIENTE') with positive amounts, after every call the amount left on the
\* credit row plus the non-credit amounts recorded so far equals A; and once
\* the recorded amounts sum to A no credit row remains for that sale.
C12_AbonosSumanCredito ==
    \A c \in DOMAIN fiado :
        /\ RestoCredito(c) + Recaudado(fiado[c].cita_id) = fiado[c].monto
        /\ Recaudado(fiado[c].cita_id) = fiado[c].monto =>
              \A i \in 1..Len(pagos) :
                  pagos[i].cita_id = fiado[c].cita_id => pagos[i].metodo # "CREDITO"

\* C12, witness: a credit of 2 settled by two calls of 1
C12_Testigo ==
    /\ ult.op = "realizar_abono_deuda"
    /\ ult.tipo = "CLIENTE"
    /\ ult.msg = "Saldado Total"
    /\ \E c \in DOMAIN fiado :
          /\ fiado[c].monto = 2
          /\ RestoCredito(c) = 0
          /\ Len(Recaudos(fiado[c].cita_id)) = 2
          /\ Recaudado(fiado[c].cita_id) = 2

\* C13 as amended: a call of realizar_abono_deuda('CLIENTE') on a credit row
\* with an amount >= the amount owed on the row deletes the row and inserts
\* one settling payment, with the new method, for the amount owed at the time
\* of the call; with a smaller amount it lowers the row by the amount and
\* inserts a payment of that amount.
C13_SaldoAlLlamar ==
    [][(ult'.op = "realizar_abono_deuda" /\ ult'.tipo = "CLIENTE"
        /\ FilasDePago(pagos, ult'.id) # <<>>) =>
          LET debe == FilasDePago(pagos, ult'.id)[1].monto
              nueva == pagos'[Len(pagos')]
          IN  /\ ult'.ok
              /\ nueva.id \notin {pagos[i].id : i \in 1..Len(pagos)}
              /\ nueva.metodo = ult'.metodo
              /\ nueva.cita_id = FilasDePago(pagos, ult'.id)[1].cita_id
              /\ IF ult'.monto >= debe
                 THEN /\ FilasDePago(pagos', ult'.id) = <<>>
                      /\ Len(pagos') = Len(pagos)
                      /\ nueva.monto = debe
                 ELSE /\ FilasDePago(pagos', ult'.id) # <<>>
                      /\ FilasDePago(pagos', ult'.id)[1].monto = debe - ult'.monto
                      /\ Len(pagos') = Len(pagos) + 1
                      /\ nueva.monto = ult'.monto]_vars

\* C13: ... the settling payment is for the full original amount of the
\* credit, the amount of the credit sale before any partial settlement.
C13_MontoOriginal ==
    [][(ult'.op = "realizar_abono_deuda" /\ ult'.tipo = "CLIENTE"
        /\ FilasDePago(pagos, ult'.id) # <<>>) =>
          LET debe == FilasDePago(pagos, ult'.id)[1].monto
              nueva == pagos'[Len(pagos')]
          IN  IF ult'.monto >= debe
              THEN /\ FilasDePago(pagos', ult'.id) = <<>>
                   /\ nueva.metodo = ult'.metodo
                   /\ nueva.monto = fiado[ult'.id].monto
              ELSE /\ FilasDePago(pagos', ult'.id)[1].monto = debe - ult'.monto
                   /\ nueva.monto = ult'.monto]_vars

\* C13, witness: a credit of 2, lowered to 1 by a first payment, settled by a
\* second call
C13_Testigo ==
    /\ ult.op = "realizar_abono_deuda"
    /\ ult.tipo = "CLIENTE"
    /\ ult.msg = "Saldado Total"
    /\ ult.id \in DOMAIN fiado
    /\ fiado[ult.id].monto = 2
    /\ pagos[Len(pagos)].monto = 1
    /\ pagos[Len(pagos)].descripcion_extra = "Pago Deuda Credito"

\* C14: an overpayment is rejected: realizar_abono_deuda with an amount above
\* the credit owed ('CLIENTE') or above the loan's outstanding amount
\* ('PROFESIONAL') fails and leaves payments, loans and installments unchanged.
C14_SobrepagoRechazado ==
    [][ult'.op = "realizar_abono_deuda" =>
          /\ (ult'.tipo = "CLIENTE" /\ FilasDePago(pagos, ult'.id) # <<>>
              /\ ult'.monto > FilasDePago(pagos, ult'.id)[1].monto) =>
                 (~ult'.ok /\ pagos' = pagos /\ prestamos' = prestamos
                  /\ abonos_prestamos' = abonos_prestamos)
          /\ (ult'.tipo = "PROFESIONAL" /\ ult'.id \in 1..Len(prestamos)
              /\ ult'.monto > prestamos[ult'.id].monto) =>
                 (~ult'.ok /\ pagos' = pagos /\ prestamos' = prestamos
                  /\ abonos_prestamos' = abonos_prestamos)]_vars

----------------------------------------------------------------------------
(* Properties of the loans *)

\* The values of the installments of a loan, in the order they were written
Cuotas(ab, id) ==
    LET f == SelectSeq(ab, LAMBDA r : r.prestamo_id = id)
    IN  [i \in 1..Len(f) |-> f[i].valor]

Max0(x) == IF x > 0 THEN x ELSE 0

\* C15: for every loan created with an amount > 0, after any sequence of
\* realizar_abono_deuda('PROFESIONAL') calls and payroll deductions with
\* positive amounts, the stored outstanding amount equals
\* max(0, original - sum of the values of the loan's installment rows), and
\* the loan is Pagado if and only if its outstanding amount is 0.
C15_SaldoPrestamo ==
    \A id \in 1..Len(prestamos) :
        prestado[id] > 0 =>
            /\ prestamos[id].monto = Max0(prestado[id] - SumaSeq(Cuotas(abonos_prestamos, id)))
            /\ prestamos[id].estado = "Pagado" <=> prestamos[id].monto = 0

\* C15, witness: a loan of 2 paid off by a voluntary payment of 1 and a
\* payroll deduction
C15_Testigo ==
    \E id \in 1..Len(prestamos) :
        /\ prestado[id] = 2
        /\ prestamos[id].estado = "Pagado"
        /\ Len(Cuotas(abonos_prestamos, id)) = 2
        /\ \E i \in 1..Len(abonos_prestamos) :
              /\ abonos_prestamos[i].prestamo_id = id
              /\ abonos_prestamos[i].descripcion = "Deduccion Nomina"
        /\ \E i \in 1..Len(abonos_prestamos) :
              /\ abonos_prestamos[i].prestamo_id = id
              /\ abonos_prestamos[i].descripcion = "Abono Voluntario"

\* The pending loans of a professional before a payroll call, oldest first
PendientesAntes(pid) ==
    SelectSeq([i \in 1..Len(prestamos) |-> i],
              LAMBDA i : prestamos[i].profesional_id = pid
                         /\ prestamos[i].estado = "Pendiente")

\* What the budget still holds when the k-th pending loan is reached
RECURSIVE QuedaAl(_, _, _)
QuedaAl(pend, k, presupuesto) ==
    IF k <= 1 THEN presupuesto
    ELSE Max0(QuedaAl(pend, k - 1, presupuesto) - prestamos[pend[k - 1]].monto)

\* C19: pagar_nomina_flexible pays the professional's pending loans strictly
\* oldest first: a loan the remaining budget covers becomes Pagado with
\* outstanding 0, the first loan it does not cover is lowered by exactly the
\* remaining budget and stays Pendiente, later loans are untouched; so a
\* newer loan is lowered only if every older pending loan of the professional
\* was brought to 0 and Pagado in the same call.
C19_NominaMasAntiguoPrimero ==
    [][(ult'.op = "pagar_nomina_flexible" /\ ult'.ok) =>
          LET pend == PendientesAntes(BuscarPid(ult'.pro))
          IN  /\ \A k \in 1..Len(pend) :
                    LET id == pend[k]
                        queda == QuedaAl(pend, k, ult'.abono)
                    IN  /\ (queda > 0 /\ queda >= prestamos[id].monto) =>
                               /\ prestamos'[id].estado = "Pagado"
                               /\ prestamos'[id].monto = 0
                        /\ (queda > 0 /\ queda < prestamos[id].monto) =>
                               /\ prestamos'[id].estado = "Pendiente"
                               /\ prestamos'[id].monto = prestamos[id].monto - queda
                        /\ queda <= 0 => prestamos'[id] = prestamos[id]
                        /\ prestamos'[id].monto < prestamos[id].monto =>
                               \A j \in 1..(k - 1) :
                                   /\ prestamos'[pend[j]].estado = "Pagado"
                                   /\ prestamos'[pend[j]].monto = 0
              /\ \A id \in 1..Len(prestamos) :
                    (\A k \in 1..Len(pend) : pend[k] # id) => prestamos'[id] = prestamos[id]
              /\ Len(prestamos') = Len(prestamos)]_vars

\* C19, witness: two pending loans of 1 (older) and 2 of one professional and
\* a budget of 2: the older is paid off, the newer is left at 1
C19_Testigo ==
    /\ ult.op = "pagar_nomina_flexible"
    /\ ult.ok
    /\ ult.abono = 2
    /\ Len(prestamos) = 2
    /\ prestado = <<1, 2>>
    /\ prestamos[1].profesional_id = prestamos[2].profesional_id
    /\ prestamos[1].profesional_id = BuscarPid(ult.pro)
    /\ prestamos[1].estado = "Pagado" /\ prestamos[1].monto = 0
    /\ prestamos[2].estado = "Pendiente" /\ prestamos[2].monto = 1
    /\ Len(abonos_prestamos) = 2

----------------------------------------------------------------------------
(* Properties of the purchases *)

\* C16: in every reachable state, for every purchase, estado = Pagado if and
\* only if the sum of the amounts of its supplier installments is >= the
\* purchase total, after any sequence of registrar_compra (credit or not) and
\* abonar_proveedor calls.
C16_PagadaSiiAbonada ==
    \A id \in 1..Len(compras) :
        compras[id].estado = "Pagado"
            <=> PagadoProveedor(abonos_proveedores, id) >= compras[id].total

\* C16 as amended: for every credit purchase (metodo CREDITO) of total > 0,
\* estado = Pagado if and only if the sum of the positive amounts paid to the
\* supplier for it is >= its total; a purchase that is not on credit is
\* Pagado from its registration, whatever its installments.
C16_CreditoPagadoSiiAbonado ==
    \A id \in 1..Len(compras) :
        IF compras[id].metodo_pago = "CREDITO"
        THEN compras[id].total > 0 =>
                (compras[id].estado = "Pagado"
                    <=> PagadoProveedor(abonos_proveedores, id) >= compras[id].total)
        ELSE compras[id].estado = "Pagado"

\* C16, witness: a credit purchase of 2 paid off by two installments of 1,
\* beside a cash purchase with no installment
C16_Testigo ==
    \E id \in 1..Len(compras), otra \in 1..Len(compras) :
        /\ compras[id].metodo_pago = "CREDITO"
        /\ compras[id].total = 2
        /\ compras[id].estado = "Pagado"
        /\ Len(SelectSeq(abonos_proveedores, LAMBDA r : r.compra_id = id)) = 2
        /\ compras[otra].metodo_pago # "CREDITO"
        /\ PagadoProveedor(abonos_proveedores, otra) = 0

\* The quantity of a product in the items of a purchase
RECURSIVE CantidadComprada(_, _, _)
CantidadComprada(items, k, prod) ==
    IF k > Len(items) THEN 0
    ELSE (IF items[k].prod = prod THEN items[k].cant ELSE 0)
         + CantidadComprada(items, k + 1, prod)

\* C17: registrar_compra creates the purchase Pendiente exactly when the
\* method is CREDITO and Pagado otherwise, raises the stock of each listed
\* existing product by the item quantity, and inserts an expense of category
\* 'Compra Mercancia' for the total if and only if the method is not CREDITO.
C17_RegistrarCompra ==
    [][ult'.op = "registrar_compra" =>
          LET nueva == compras'[Len(compras')]
          IN  /\ ult'.ok
              /\ Len(compras') = Len(compras) + 1
              /\ nueva.total = ult'.total
              /\ nueva.estado = (IF ult'.metodo = "CREDITO" THEN "Pendiente" ELSE "Pagado")
              /\ \A i \in 1..Len(compras) : compras'[i] = compras[i]
              /\ \A p \in DOMAIN productos :
                    productos'[p] = productos[p] + CantidadComprada(ult'.items, 1, p)
              /\ IF ult'.metodo # "CREDITO"
                 THEN /\ Len(gastos') = Len(gastos) + 1
                      /\ gastos'[Len(gastos')].categoria = "Compra Mercancia"
                      /\ gastos'[Len(gastos')].valor = ult'.total
                      /\ \A i \in 1..Len(gastos) : gastos'[i] = gastos[i]
                 ELSE gastos' = gastos]_vars

\* C17, witness: a credit purchase of an existing product, registered after
\* a cash purchase
C17_Testigo ==
    /\ ult.op = "registrar_compra"
    /\ ult.metodo = "CREDITO"
    /\ Len(ult.items) = 1
    /\ ult.items[1].prod \in DOMAIN productos
    /\ productos[ult.items[1].prod] = 2
    /\ Len(compras) = 2
    /\ compras[1].estado = "Pagado"
    /\ compras[2].estado = "Pendiente"
    /\ Len(gastos) = 1

\* C18: every successful abonar_proveedor inserts exactly one supplier
\* installment and exactly one expense of category 'Pago Proveedor' with the
\* same amount and method, and sets the purchase Pagado in that same call
\* when the cumulative installments reach the total; a failed call (unknown
\* purchase id) inserts neither row.
C18_AbonarProveedor ==
    [][ult'.op = "abonar_proveedor" =>
          IF ult'.ok
          THEN LET ab == abonos_proveedores'[Len(abonos_proveedores')]
                   g == gastos'[Len(gastos')]
               IN  /\ Len(abonos_proveedores') = Len(abonos_proveedores) + 1
                   /\ \A i \in 1..Len(abonos_proveedores) :
                         abonos_proveedores'[i] = abonos_proveedores[i]
                   /\ ab.compra_id = ult'.id /\ ab.monto = ult'.monto
                   /\ ab.metodo = ult'.metodo
                   /\ Len(gastos') = Len(gastos) + 1
                   /\ \A i \in 1..Len(gastos) : gastos'[i] = gastos[i]
                   /\ g.categoria = "Pago Proveedor" /\ g.valor = ult'.monto
                   /\ g.metodo = ult'.metodo
                   /\ ult'.id \in 1..Len(compras)
                   /\ PagadoProveedor(abonos_proveedores, ult'.id) + ult'.monto
                          >= compras[ult'.id].total
                        => compras'[ult'.id].estado = "Pagado"
          ELSE /\ ult'.id \notin 1..Len(compras)
               /\ abonos_proveedores' = abonos_proveedores
               /\ gastos' = gastos
               /\ compras' = compras]_vars

\* C18, witness: the installment that completes the total of a credit
\* purchase, after a call for an unknown purchase that failed
C18_Testigo ==
    /\ ult.op = "abonar_proveedor"
    /\ ult.ok
    /\ compras[ult.id].metodo_pago = "CREDITO"
    /\ compras[ult.id].estado = "Pagado"
    /\ compras[ult.id].total = 2
    /\ Len(abonos_proveedores) = 2
    /\ PagadoProveedor(abonos_proveedores, ult.id) = 2

----------------------------------------------------------------------------
(* Properties of the payroll settlement *)

\* The appointments that count toward the commission owed: Pagado and not
\* settled by a payroll
PorLiquidar(cs, pid) ==
    {i \in 1..Len(cs) : cs[i].pro = pid /\ cs[i].estado = "Pagado" /\ cs[i].nomina_pagada = 0}

RECURSIVE SumaComisiones(_, _)
SumaComisiones(cs, S) ==
    IF S = {} THEN 0
    ELSE LET i == CHOOSE x \in S : TRUE
         IN  (cs[i].precio * ComisionDe(cs[i].pro)) \div 100 + SumaComisiones(cs, S \ {i})

\* What the two queries report for a table of appointments: the
\* appointments traer_info_liquidacion lists for each professional over all
\* dates, and the debts of traer_cuentas_por_pagar_comisiones
ComisionesSegunConsultas(cs) ==
    [liquidacion |->
        [e \in 1..Len(Empleados) |->
            LET v == traer_info_liquidacion([citas |-> cs, prestamos |-> prestamos],
                                            clientes, Empleados[e].nombre,
                                            FechaUI(1), FechaUI(2)).ventas
            IN  {<<v[k].id, v[k].comision>> : k \in 1..Len(v)}],
     deudas |-> traer_cuentas_por_pagar_comisiones([citas |-> cs])]

\* C20: once an appointment has been listed in a successful
\* pagar_nomina_flexible call its nomina_pagada flag is true in every later
\* state, and it is never again counted in the commission owed, which
\* traer_info_liquidacion and traer_cuentas_por_pagar_comisiones compute as
\* final price x commission / 100 over exactly the Pagado appointments whose
\* flag is false; listing an already settled appointment in a further call
\* changes neither its flag nor the commission owed.
C20_NominaLiquidada ==
    [][/\ (ult'.op = "pagar_nomina_flexible" /\ ult'.ok) =>
              \A k \in 1..Len(ult'.ids) :
                  ult'.ids[k] \in 1..Len(citas) => citas'[ult'.ids[k]].nomina_pagada = 1
       /\ \A i \in 1..Len(citas) : citas[i].nomina_pagada = 1 => citas'[i].nomina_pagada = 1
       /\ LET q == ComisionesSegunConsultas(citas')
          IN  \A e \in 1..Len(Empleados) :
                  LET pid == Empleados[e].id
                      S == PorLiquidar(citas', pid)
                  IN  /\ q.liquidacion[e]
                            = {<<i, (citas'[i].precio * Empleados[e].comision) \div 100>> : i \in S}
                      /\ \A i \in 1..Len(citas') :
                            citas'[i].nomina_pagada = 1 =>
                                \A x \in q.liquidacion[e] : x[1] # i
                      /\ IF S = {} THEN Empleados[e].nombre \notin DOMAIN q.deudas
                         ELSE /\ Empleados[e].nombre \in DOMAIN q.deudas
                              /\ q.deudas[Empleados[e].nombre] = SumaComisiones(citas', S)
       /\ (ult'.op = "pagar_nomina_flexible"
           /\ \A k \in 1..Len(ult'.ids) :
                 ult'.ids[k] \in 1..Len(citas) /\ citas[ult'.ids[k]].nomina_pagada = 1) =>
              /\ citas' = citas
              /\ ComisionesSegunConsultas(citas') = ComisionesSegunConsultas(citas)]_vars

\* C20, witness: appointment 1, paid, listed in a second successful payroll
\* call while appointment 2 is paid and still owed its commission
C20_Testigo ==
    /\ ult.op = "pagar_nomina_flexible"
    /\ ult.ok
    /\ ult.ids = <<1>>
    /\ Len(gastos) = 2
    /\ citas[1].estado = "Pagado" /\ citas[1].nomina_pagada = 1
    /\ citas[2].estado = "Pagado" /\ citas[2].nomina_pagada = 0
    /\ traer_cuentas_por_pagar_comisiones([citas |-> citas])
          = [n \in {"Lennys"} |-> 15000]

----------------------------------------------------------------------------
(* Properties of the reports and of the failure paths *)

\* The last call was pagar_nomina_flexible with an input that makes it raise:
\* a name that is no employee's, or a list with an entry that does not unpack
NominaDebeFallar(u) ==
    \/ BuscarPid(u.pro) = SinFila
    \/ \E i \in 1..Len(u.lista) : ~Desempaca(u.lista[i])

\* C21: pagar_nomina_flexible is atomic: a call that fails at any step,
\* at the lookup of the professional or later, returns failure and leaves
\* every payroll-settled flag, loan, installment and expense as it was
C21_NominaAtomica ==
    [][(ult'.op = "pagar_nomina_flexible")
          => /\ NominaDebeFallar(ult') => ~ult'.ok
             /\ ~ult'.ok => UNCHANGED <<citas, prestamos, abonos_prestamos, gastos, pagos>>]_vars

\* A call for Andrea failed in its last loop, after the statements that flag
\* appointment 1, deduct from her pending loan and insert one expense
C21_Testigo ==
    /\ ult.op = "pagar_nomina_flexible"
    /\ ~ult.ok
    /\ ult.pro = "Andrea"
    /\ ult.abono > 0
    /\ ult.lista \in ListasRotas
    /\ citas[1].nomina_pagada = 0
    /\ \E i \in 1..Len(prestamos) : /\ prestamos[i].profesional_id = BuscarPid("Andrea")
                                    /\ prestamos[i].estado = "Pendiente"

\* The professional's loans and the installments on them, as row indices
PrestamosDe(pid) == {i \in 1..Len(prestamos) : prestamos[i].profesional_id = pid}
CuotasDe(pid) == {k \in 1..Len(abonos_prestamos) : abonos_prestamos[k].prestamo_id \in PrestamosDe(pid)}

\* C22: the ledger of a professional has one '+' event per loan with the
\* amount the loan was created with and one '-' event per installment, and
\* its final running balance is the sum of the original loan amounts less the
\* sum of the installment values
C22_KardexSaldoFinal ==
    \A e \in 1..Len(Empleados) :
        LET pid == Empleados[e].id
            k == traer_kardex_prestamos(Libro, Empleados[e].nombre)
            mas == SelectSeq(k, LAMBDA x : x.t = "PRESTAMO (+)")
            menos == SelectSeq(k, LAMBDA x : x.t = "ABONO (-)")
            originales == SelectSeq([i \in 1..Len(prestamos) |-> i], LAMBDA i : i \in PrestamosDe(pid))
        IN  /\ Len(mas) = Cardinality(PrestamosDe(pid))
            /\ Len(menos) = Cardinality(CuotasDe(pid))
            /\ \A i \in 1..Len(mas) : mas[i].m = Pesos(prestado[originales[i]])
            /\ k # <<>> =>
                  k[Len(k)].saldo
                     = Pesos(SumaSeq([i \in 1..Len(originales) |-> prestado[originales[i]]])
                             - SumaSeq([i \in 1..Len(menos) |-> menos[i].m[2]]))

\* The movements of the ledger in ult of one kind dated day dia, without the
\* running balance
DelDia(kardex, t, dia) ==
    LET suyos == SelectSeq(kardex, LAMBDA x : x.t = t /\ x.f = FechaUI(dia))
    IN  [i \in 1..Len(suyos) |-> [d |-> suyos[i].d, m |-> suyos[i].m]]

\* The same for the movements before sorting, as the two queries return them
LeidosDelDia(pid, t, dia) ==
    LET suyos == SelectSeq(MovimientosKardex(Libro, pid),
                           LAMBDA x : x.t = t /\ x.f = FechaISO(dia))
    IN  [i \in 1..Len(suyos) |-> [d |-> suyos[i].d, m |-> Pesos(suyos[i].m)]]

\* C23: the ledger is ordered by non-decreasing date; among the events of
\* one day every loan comes before every installment, and the rows of each
\* table keep the order in which the query returned them
C23_KardexOrdenado ==
    (ult.op = "traer_kardex_prestamos") =>
        LET k == ult.kardex
            pid == BuscarPid(ult.pro)
        IN  /\ \A i \in 1..Len(k), j \in 1..Len(k) :
                  i < j => /\ k[i].f.d <= k[j].f.d
                           /\ k[i].f.d = k[j].f.d => ~(k[i].t = "ABONO (-)" /\ k[j].t = "PRESTAMO (+)")
            /\ \A dia \in DiasLibro, t \in {"PRESTAMO (+)", "ABONO (-)"} :
                  DelDia(k, t, dia) = LeidosDelDia(pid, t, dia)
            /\ Len(k) = Len(MovimientosKardex(Libro, pid))

\* The ledger of Andrea was read from books with two loans of different
\* amounts and an installment all dated the same day, and a movement of a
\* later day
C23_Testigo ==
    /\ ult.op = "traer_kardex_prestamos"
    /\ ult.pro = "Andrea"
    /\ Len(DelDia(ult.kardex, "PRESTAMO (+)", 1)) = 2
    /\ DelDia(ult.kardex, "PRESTAMO (+)", 1)[1] # DelDia(ult.kardex, "PRESTAMO (+)", 1)[2]
    /\ Len(DelDia(ult.kardex, "ABONO (-)", 1)) >= 1
    /\ \E i \in 1..Len(ult.kardex) : ult.kardex[i].f = FechaUI(2)

\* The payments dated the day of the closure in ult
PagosDelCierre == SelectSeq(pagos, LAMBDA p : p.fecha = f_to_iso(ult.fecha))

\* C24: the cash closure of a day keeps the credit payments out of the
\* revenue buckets: a payment of the day with method CREDITO adds to no
\* bucket of res['ventas'] and is listed in detalle_creditos_lista, and every
\* other payment of the day is added to the bucket of its method
C24_CreditoFueraDeVentas ==
    (ult.op = "obtener_cierre_caja_dia") =>
        LET creditos == SelectSeq(PagosDelCierre, LAMBDA p : p.metodo = "CREDITO")
            cobros == SelectSeq(PagosDelCierre, LAMBDA p : p.metodo # "CREDITO")
        IN  /\ "CREDITO" \notin DOMAIN ult.res.ventas
            /\ ult.res.detalle_creditos_lista
                  = [i \in 1..Len(creditos) |-> <<citas[creditos[i].cita_id].cliente, creditos[i].monto>>]
            /\ ult.res.ventas
                  = Agrupar([i \in 1..Len(cobros) |-> <<cobros[i].metodo, cobros[i].monto>>])

\* A row is dated in the range of the balance in ult
EnRango(fila) ==
    /\ fila.fecha.d >= f_to_iso(ult.f1).d
    /\ fila.fecha.d <= f_to_iso(ult.f2).d

\* The sum of the amounts of the payments in the range that satisfy P, and
\* of the values of the expenses in the range that satisfy P
SumaPagos(P(_)) ==
    SumaSeq([i \in 1..Len(pagos) |-> IF EnRango(pagos[i]) /\ P(pagos[i]) THEN pagos[i].monto ELSE 0])
SumaGastos(P(_)) ==
    SumaSeq([i \in 1..Len(gastos) |-> IF EnRango(gastos[i]) /\ P(gastos[i]) THEN gastos[i].valor ELSE 0])

\* C26: the balance of a range returns gross sales = the payments in the
\* range, credit included, plus the 'Descuento Ventas' expenses in the range;
\* total expenses = every expense in the range, discounts included; net
\* profit = gross sales - total expenses; and per method, as inflow only the
\* payments that are not credit and as outflow only the expenses that are
\* not discounts
C26_BalanceFinanciero ==
    (ult.op = "obtener_balance_financiero") =>
        LET res == ult.res
            metodos == {pagos[i].metodo : i \in {j \in 1..Len(pagos) :
                                                   EnRango(pagos[j]) /\ pagos[j].metodo # "CREDITO"}}
                       \cup {gastos[i].metodo : i \in {j \in 1..Len(gastos) :
                                                        /\ EnRango(gastos[j])
                                                        /\ gastos[j].categoria # "Descuento Ventas"}}
        IN  /\ res.venta_bruta = SumaPagos(LAMBDA p : TRUE)
                                 + SumaGastos(LAMBDA g : g.categoria = "Descuento Ventas")
            /\ res.gastos_total = SumaGastos(LAMBDA g : TRUE)
            /\ res.utilidad = res.venta_bruta - res.gastos_total
            /\ DOMAIN res.flujo = metodos
            /\ \A m \in metodos :
                  /\ res.flujo[m].in = SumaPagos(LAMBDA p : p.metodo = m /\ p.metodo # "CREDITO")
                  /\ res.flujo[m].out = SumaGastos(LAMBDA g : /\ g.metodo = m
                                                              /\ g.categoria # "Descuento Ventas")

\* The balance of day 1 was read from books with a credit payment, a
\* discount and a loan expense dated day 1 and a payment dated day 2
C26_Testigo ==
    /\ ult.op = "obtener_balance_financiero"
    /\ f_to_iso(ult.f1) = FechaISO(1) /\ f_to_iso(ult.f2) = FechaISO(1)
    /\ \E i \in 1..Len(pagos) : pagos[i].metodo = "CREDITO" /\ pagos[i].fecha = FechaISO(1)
    /\ \E i \in 1..Len(pagos) : pagos[i].fecha = FechaISO(2)
    /\ \E i \in 1..Len(gastos) : /\ gastos[i].categoria = "Descuento Ventas"
                                 /\ gastos[i].fecha = FechaISO(1)
    /\ \E i \in 1..Len(gastos) : /\ gastos[i].categoria = "Prestamos"
                                 /\ gastos[i].fecha = FechaISO(1)
    /\ ult.res.utilidad # ult.res.venta_bruta

Lecturas ==
    {"validar_choque", "traer_profesionales_habilitados_por_fecha",
     "obtener_cierre_caja_dia", "obtener_balance_financiero", "traer_kardex_prestamos"}

\* C25: the read operations validar_choque,
\* traer_profesionales_habilitados_por_fecha, obtener_cierre_caja_dia,
\* obtener_balance_financiero and traer_kardex_prestamos leave appointments,
\* blocks, clients, payments, expenses, loans, installments, purchases and
\* stock as they were, whatever they return
C25_LecturasNoEscriben ==
    [][(ult'.op \in Lecturas)
          => UNCHANGED <<citas, bloqueos, clientes, terceros, productos, pagos, seq_pagos, ventas,
                         gastos, prestamos, abonos_prestamos, compras, detalle_compras,
                         abonos_proveedores>>]_vars

\* validar_choque was called for a name that is no employee's and answered
\* with the error, on books that hold payments, expenses, a loan and an
\* installment
C25_Testigo ==
    /\ ult.op = "validar_choque"
    /\ ult.pro = "Nadie"
    /\ ult.ocupado /\ ult.msg.tipo = MsgError
    /\ pagos # <<>> /\ gastos # <<>> /\ prestamos # <<>> /\ abonos_prestamos # <<>>

\* C27: once an appointment is Paid, its final_price has the same value in
\* every later state, whatever sales, reschedules, cancellations, attendance
\* confirmations, settlements and payrolls follow
C27_PrecioFijoTrasPago ==
    \A i \in 1..2 : \A v \in {CitasCobroInit[j].precio : j \in 1..2} :
        []((citas[i].estado = "Pagado" /\ citas[i].precio = v) => [](citas[i].precio = v))

\* Appointment 1 was charged on credit (its payment row is on the books), the
\* credit was settled, payroll flagged it and it was then rescheduled to day
\* 2: it still has the price it was paid at
C27_Testigo ==
    /\ Len(pagos) = 1 /\ pagos[1].cita_id = 1 /\ pagos[1].metodo = "Efectivo"
    /\ citas[1].estado = "Reagendado"
    /\ citas[1].nomina_pagada = 1
    /\ citas[1].fecha = FechaISO(2)
    /\ citas[1].precio = CitasCobroInit[1].precio

\* C28: Paid and Cancelled are final with respect to the earlier statuses: no
\* operation moves an appointment that is Paid or Cancelled to Pending,
\* Rescheduled or 'Por Cobrar'
C28_PagadoYCanceladoFinales ==
    [][\A i \in 1..Len(citas) :
          citas[i].estado \in {"Pagado", "Cancelado"}
             => citas'[i].estado \notin {"Pendiente", "Reagendado", "Por Cobrar"}]_vars

\* An item of the cart names a professional or a service that does not exist
CarritoInvalido(carrito) ==
    \E k \in 1..Len(carrito) : \/ BuscarPid(carrito[k].profesional) = SinFila
                               \/ get_info_servicio(carrito[k].servicio) = <<>>

\* C29: a booking commit whose cart names a professional or a service that
\* does not exist is rejected with nothing applied: it returns failure, no
\* appointment of the cart is inserted and no client row is created
C29_PaqueteInvalidoNoEscribe ==
    [][(ult'.op = "guardar_paquete_citas" /\ CarritoInvalido(ult'.carrito))
          => /\ ~ult'.ok
             /\ UNCHANGED <<citas, clientes, terceros, bloqueos, caja, libros>>]_vars

\* C30: when two realizar_abono_deuda('PROFESIONAL', ...) calls on the same
\* loan run at the same time, after both have completed the outstanding
\* amount of the loan is max(0, original - sum of the values of its
\* installments), under every interleaving of their steps
C30_AbonosConcurrentes ==
    (DOMAIN hilos = Hilos /\ \A t \in Hilos : hilos[t].pc = "hecho") =>
        \A id \in 1..Len(prestamos) :
            prestamos[id].monto = Max0(prestado[id] - SumaSeq(Cuotas(abonos_prestamos, id)))

----------------------------------------------------------------------------
(* Properties of the stock, the stored intervals and the error answers *)

\* The quantity of a product asked for by a cart
Pedido(carrito, prod) == PedidoAntes(carrito, Len(carrito) + 1, prod)

\* The quantity of a product sold by the calls that have returned success
VendidoPor(T, prod) ==
    SumaSeq([t \in 1..Cardinality(Hilos) |-> IF t \in T THEN Pedido(hilos[t].carrito, prod) ELSE 0])

Exitosas == {t \in Hilos : hilos[t].pc = "hecho" /\ hilos[t].ok}
Fallidas == {t \in Hilos : hilos[t].pc = "hecho" /\ ~hilos[t].ok}

\* C31: when two procesar_cobro calls whose carts ask for the same product
\* run at the same time, the stock of a product is never negative in what is
\* committed, it is the stock the calls found minus the quantities of the
\* calls that have returned success, and a call that returned failure has
\* left nothing: its appointment is not paid and no payment or product sale
\* carries its id.
C31_VentasConcurrentes ==
    (DOMAIN hilos = Hilos) =>
        /\ \A p \in DOMAIN productos :
              /\ productos[p] >= 0
              /\ (\A t \in Hilos : hilos[t].pc = "hecho")
                    => productos[p] = hilos[1].antes[p] - VendidoPor(Exitosas, p)
        /\ \A t \in Fallidas :
              /\ citas[t] = CitasCobroInit[t]
              /\ \A i \in 1..Len(pagos) : pagos[i].cita_id # t
              /\ \A i \in 1..Len(ventas) : ventas[i].cita_id # t
        /\ \A t \in Exitosas :
              /\ citas[t].estado = "Pagado"
              /\ \E i \in 1..Len(pagos) : pagos[i].cita_id = t

\* C31, witness: both calls have returned success, both carts asked for
\* product 1, and they have emptied its shelf
C31_Testigo ==
    /\ DOMAIN hilos = Hilos
    /\ Exitosas = Hilos
    /\ \A t \in Hilos : Pedido(hilos[t].carrito, 1) > 0
    /\ hilos[1].antes[1] > 0
    /\ productos[1] = 0

\* C32: every stored interval ends after it starts: each appointment written
\* by a booking or by reagendar_cita, a start late in the day whose end
\* passes midnight included, and each block written by crear_bloqueo or by
\* establecer_horario_global has hora_fin > hora_inicio.
C32_FinDespuesDeInicio ==
    /\ \A i \in 1..Len(citas) : citas[i].fin > citas[i].ini
    /\ \A i \in 1..Len(bloqueos) : bloqueos[i].fin > bloqueos[i].ini

\* The document of datos is on a row of the directory that is not the row
\* datos names
DocumentoDeOtro(datos) ==
    /\ datos.doc_id # Nulo
    /\ \E j \in 1..Len(terceros) : terceros[j].id # datos.id /\ terceros[j].doc_id = datos.doc_id

HayParaTodo(carrito) ==
    \A k \in 1..Len(carrito) :
        /\ carrito[k].prod \in DOMAIN productos
        /\ carrito[k].cant <= productos[carrito[k].prod] - PedidoAntes(carrito, k, carrito[k].prod)

\* C34: from a stock that is not negative, every procesar_cobro and
\* registrar_compra call with positive quantities leaves every stock >= 0; a
\* sale succeeds exactly when each item of its cart fits in the stock the
\* earlier items of the cart have left, and then lowers each stock by the
\* quantity sold, a failed sale leaves the stock as it was, and a purchase
\* raises each stock by the quantity bought: the stock is the initial stock
\* plus the purchases minus the successful sales.
C34_Existencias ==
    [][/\ \A p \in DOMAIN productos : productos[p] >= 0 => productos'[p] >= 0
       /\ ult'.op = "procesar_cobro" =>
             /\ ult'.ok <=> HayParaTodo(ult'.carrito)
             /\ \A p \in DOMAIN productos :
                   productos'[p] = productos[p]
                                   - (IF ult'.ok THEN Pedido(ult'.carrito, p) ELSE 0)
       /\ ult'.op = "registrar_compra" =>
             /\ ult'.ok
             /\ \A p \in DOMAIN productos :
                   productos'[p] = productos[p]
                                   + CantidadComprada(ult'.items, 1, p)]_vars

\* C34, witness: after a purchase of product 1, a sale whose cart lists
\* product 1 twice has emptied its shelf
C34_Testigo ==
    /\ ult.op = "procesar_cobro"
    /\ ult.ok
    /\ Len(ult.carrito) = 2
    /\ ult.carrito[1].prod = 1
    /\ ult.carrito[2].prod = 1
    /\ productos[1] = 0
    /\ \E i \in 1..Len(detalle_compras) : detalle_compras[i].producto_id = 1

\* The global 'Fuera de Horario' blocks of a date
HorarioGlobal(b, fecha_iso) ==
    b.fecha = fecha_iso /\ b.pid = 0 /\ b.motivo = MotivoHorario

\* C35: establecer_horario_global replaces, it does not accumulate: after a
\* call for a date, the global 'Fuera de Horario' blocks of the date are those
\* of that call (00:00-open unless open is 00:00, then close-23:59 unless
\* close is 23:59, at most two), whatever the calls before it left; the blocks
\* of another motive, professional or date are as they were; and the same
\* call made again leaves the table as it is.
C35_HorarioReemplaza ==
    [][ult'.op = "establecer_horario_global" =>
          LET f == f_to_iso(ult'.fecha)
              ho == ult'.horario
              puestos == SelectSeq(bloqueos', LAMBDA b : HorarioGlobal(b, f))
          IN  /\ puestos =
                    (IF ho[1] # 0
                     THEN <<FilaBloqueo(0, f, 0, ho[1], MotivoHorario)>> ELSE <<>>)
                    \o (IF ho[2] # MinutosDia - 1
                        THEN <<FilaBloqueo(0, f, ho[2], MinutosDia - 1, MotivoHorario)>>
                        ELSE <<>>)
              /\ Len(puestos) <= 2
              /\ SelectSeq(bloqueos', LAMBDA b : ~HorarioGlobal(b, f))
                    = SelectSeq(bloqueos, LAMBDA b : ~HorarioGlobal(b, f))
              /\ establecer_horario_global(bloqueos', ult'.fecha, ho[1], ho[2]) = bloqueos']_vars

\* C35, witness: a call has left its two blocks for day 1 beside the lunch
\* block of day 1 and the store hours of day 2
C35_Testigo ==
    /\ ult.op = "establecer_horario_global"
    /\ ult.horario = <<570, 1080>>
    /\ Len(bloqueos) = 4
    /\ \E i \in 1..Len(bloqueos) : bloqueos[i].motivo = "Almuerzo"
    /\ \E i \in 1..Len(bloqueos) : bloqueos[i].fecha = FechaISO(2)

\* The call moves a stored appointment that is not cancelled to a window of
\* its own professional and date that overlaps the window it has
SobreSiMisma(u) ==
    /\ u.id \in 1..Len(citas)
    /\ citas[u.id].estado # "Cancelado"
    /\ \E e \in EmpleadosDe(u.pro) : citas[u.id].pro = e.id
    /\ citas[u.id].fecha = FechaISO(u.fecha.d)
    /\ u.hora < citas[u.id].fin
    /\ u.hora + DuracionDe(citas[u.id].srv) > citas[u.id].ini

\* C36: reagendar_cita checks the new slot against every appointment of the
\* professional and date that is not cancelled, the one being moved included:
\* a move to the same professional and date whose new window overlaps the
\* window the appointment has, even if it overlaps nothing else, is refused
\* with the occupancy reason and leaves every appointment as it was.
C36_ChocaConsigoMisma ==
    [][(ult'.op = "reagendar_cita" /\ SobreSiMisma(ult'))
          => /\ ~ult'.ok
             /\ ult'.msg.tipo = MsgOcupado
             /\ citas' = citas]_vars

\* C36, witness: the only appointment of the agenda, 09:00-10:00, could not
\* be moved to 09:30 of the same day with the same professional, no block
\* being in the way
C36_Testigo ==
    /\ ult.op = "reagendar_cita"
    /\ ~ult.ok
    /\ ult.msg.tipo = MsgOcupado
    /\ Len(citas) = 1
    /\ bloqueos = <<>>
    /\ ult.id = 1
    /\ ult.hora = 570
    /\ citas[1].ini = 540
    /\ citas[1].estado = "Pendiente"
    /\ citas[1].fecha = FechaISO(ult.fecha.d)
    /\ \E e \in EmpleadosDe(ult.pro) : citas[1].pro = e.id

\* The smaller of two numbers
Min(a, b) == IF a < b THEN a ELSE b

\* C37: a successful pagar_nomina_flexible call with a budget B > 0 inserts
\* only 'Deduccion Nomina' installments, at most one for a loan, each on a
\* pending loan of the professional and equal to what the outstanding amount
\* of its loan went down by; they sum to min(B, the total outstanding of the
\* professional's pending loans before the call); no outstanding amount
\* becomes negative; a loan without an installment, those of the other
\* professionals among them, is unchanged; and a budget larger than the total
\* outstanding does not make the call fail.
C37_DeduccionesDeNomina ==
    [][(/\ ult'.op = "pagar_nomina_flexible"
        /\ ult'.abono > 0
        /\ BuscarPid(ult'.pro) # SinFila
        /\ \A i \in 1..Len(ult'.lista) : Desempaca(ult'.lista[i]))
          => LET pend == PendientesAntes(BuscarPid(ult'.pro))
                 n == Len(abonos_prestamos)
                 nuevas == SubSeq(abonos_prestamos', n + 1, Len(abonos_prestamos'))
                 total == SumaSeq([k \in 1..Len(pend) |-> prestamos[pend[k]].monto])
             IN  /\ ult'.ok
                 /\ SubSeq(abonos_prestamos', 1, n) = abonos_prestamos
                 /\ \A i \in 1..Len(nuevas) :
                       /\ nuevas[i].descripcion = "Deduccion Nomina"
                       /\ \E k \in 1..Len(pend) : pend[k] = nuevas[i].prestamo_id
                       /\ nuevas[i].valor = prestamos[nuevas[i].prestamo_id].monto
                                            - prestamos'[nuevas[i].prestamo_id].monto
                       /\ \A j \in 1..Len(nuevas) :
                             nuevas[j].prestamo_id = nuevas[i].prestamo_id => j = i
                 /\ SumaSeq([i \in 1..Len(nuevas) |-> nuevas[i].valor]) = Min(ult'.abono, total)
                 /\ Len(prestamos') = Len(prestamos)
                 /\ \A id \in 1..Len(prestamos) :
                       /\ prestamos'[id].monto >= 0
                       /\ (\A i \in 1..Len(nuevas) : nuevas[i].prestamo_id # id)
                             => prestamos'[id] = prestamos[id]
                       /\ prestamos[id].profesional_id # BuscarPid(ult'.pro)
                             => prestamos'[id] = prestamos[id]]_vars

\* C37, witness: a budget of 4 against a single pending loan of 2 of the
\* professional: the loan is paid off by an installment of 2, the call
\* succeeds, and the pending loan of the other professional is as it was
C37_Testigo ==
    /\ ult.op = "pagar_nomina_flexible"
    /\ ult.ok
    /\ ult.abono = 4
    /\ Len(prestamos) = 2
    /\ prestado = <<2, 2>>
    /\ prestamos[1].profesional_id = BuscarPid(ult.pro)
    /\ prestamos[1].estado = "Pagado" /\ prestamos[1].monto = 0
    /\ prestamos[2].profesional_id # BuscarPid(ult.pro)
    /\ prestamos[2].estado = "Pendiente" /\ prestamos[2].monto = 2
    /\ Len(abonos_prestamos) = 1
    /\ abonos_prestamos[1].valor = 2
    /\ abonos_prestamos[1].descripcion = "Deduccion Nomina"

\* A stored time of the rows validar_choque selects for the professional and
\* the date does not parse
IntervaloIlegible(pro, fecha) ==
    LET pid == BuscarPid(pro)
        filas == CitasDe(citas, f_to_iso(fecha), pid) \o BloqueosDe(bloqueos, f_to_iso(fecha), pid)
    IN  \E k \in 1..Len(filas) : ~HoraValida(filas[k].ini) \/ ~HoraValida(filas[k].fin)

\* The call cannot be answered: no employee of that name, a start time that
\* is not HH:MM, or a stored interval that cannot be parsed
SinRespuesta(pro, fecha, hora) ==
    \/ BuscarPid(pro) = SinFila
    \/ ~HoraValida(hora)
    \/ IntervaloIlegible(pro, fecha)

\* C38: validar_choque fails closed: when the professional name matches no
\* employee, the start time is not HH:MM or a stored interval cannot be
\* parsed, it answers occupied, with the error text as reason in the first
\* two cases, and never that the slot is free; the booking and the
\* reschedule that call it then fail and write nothing.
C38_FallaCerrado ==
    [][/\ (ult'.op = "validar_choque" /\ SinRespuesta(ult'.pro, ult'.fecha, ult'.hora))
             => /\ ult'.ocupado
                /\ (BuscarPid(ult'.pro) = SinFila \/ ~HoraValida(ult'.hora))
                      => ult'.msg.tipo = MsgError
       /\ (ult'.op = "agendar_cita"
           /\ SinRespuesta(ult'.cita.profesional, ult'.cita.fecha, ult'.cita.hora))
             => ~ult'.ok /\ UNCHANGED <<citas, bloqueos, clientes, terceros>>
       /\ (ult'.op = "reagendar_cita" /\ ult'.id \in 1..Len(citas)
           /\ SinRespuesta(ult'.pro, ult'.fecha, ult'.hora))
             => ~ult'.ok /\ UNCHANGED <<citas, bloqueos, clientes, terceros>>]_vars

====
